---- MODULE Spec2Model ----
(***************************************************************************)
(* A model of the LogHandler repository: the Generator service (task       *)
(* controller, producer engine, shipper) and the Parser service (ingest    *)
(* pipeline, query compiler, query API).                                   *)
(*                                                                         *)
(* Time is abstracted: a ticker may fire at any moment and a timeout may   *)
(* expire at any moment.  A section of code that runs between mu.Lock()    *)
(* and mu.Unlock() and cannot block is one atomic action.                  *)
(***************************************************************************)
EXTENDS Integers, Sequences, FiniteSets, TLC

(***************************************************************************)
(* Bounds of the model.                                                    *)
(***************************************************************************)
\* number of POST /logs requests sent to the Generator
MaxReq == 2
\* number of contexts (cancel tokens) the Generator creates
MaxCtx == 3
\* number of them a behaviour of the whole Generator may take (the last
\* GenCtxs of them: which context WithCancel returns first is immaterial)
GenCtxs == 2
\* largest num_logs a request or the configuration carries
MaxRate == 1

\* runtime.NumCPU() of the host
NumCPU == 2

Reqs == 1..MaxReq
Ctxs == 1..MaxCtx

(***************************************************************************)
(* Generator: messages and responses.                                      *)
(***************************************************************************)
MsgOnlyPost == "Only POST method allowed"
MsgMissing == "Rate and unit are missing"
MsgInvalidUnit == "Invalid unit. Use s, m, or h for unit variable"
MsgNoStatus == "No status received in time"
MsgInProgress == "Task is in progress..."
MsgSkip == "numLogs is zero or negative, skipping the generate"
MsgSent == "Logs successfully sent to LogParser"
MsgSendError == "Error sending logs to processor"
MsgSendFailed == "Failed to send logs. Status"

\* utils.ResponseHandler.SendResponse(w, statusCode, success, message, nil)
ContentTypeJSON == "application/json"
ContentTypeText == "text/plain; charset=utf-8"

SendResponse(statusCode, success, message) ==
  [code |-> statusCode, status |-> success, message |-> message, data |-> "null",
   contentType |-> ContentTypeJSON]

\* net/http.Error(w, error, code): the text is the whole body, sent as plain
\* text; the body has no status, message or data member
HttpError(error, statusCode) ==
  [code |-> statusCode, body |-> error, contentType |-> ContentTypeText]

NoResponse ==
  [code |-> 0, status |-> FALSE, message |-> "", data |-> "none", contentType |-> ""]

Methods == {"POST", "GET"}
Units == {"s", "xyz"}
\* the request body: not decodable as JSON, or a RequestPayload; a payload
\* without num_logs decodes to NumLogs 0 (Go's zero value)
NoBody == [decoded |-> FALSE, NumLogs |-> 0, Unit |-> ""]
Bodies == {NoBody} \cup [decoded : {TRUE}, NumLogs : 0..MaxRate, Unit : Units]

VARIABLES
  RateData,     \* utils.RateData {NumLogs, Unit}
  ConfigData,   \* utils.ConfigData {KEY_RATE, KEY_UNIT}
  cancelFunc,   \* the package variable cancelFunc: 0 is nil, else the context it cancels
  cancelled,    \* the contexts whose cancel function has been called
  nextCtx,      \* the next context context.WithCancel returns
  req,          \* per request: the LogHandler goroutine serving it
  task,         \* per request: the startLogGenerationTask goroutine it spawned
  statusChan,   \* per request: the buffered channel make(chan string, 1)
  wg,           \* per task: the counter of its sync.WaitGroup
  run,          \* per context: the GenerateLogsConcurrently goroutine started with it
  ship,         \* per task: SendLogToProcessor goroutines not yet finished
  stopClean     \* a stop was served while no start was in flight, and none came since

genVars == <<RateData, ConfigData, cancelFunc, cancelled, nextCtx, req, task,
             statusChan, wg, run, ship, stopClean>>

VARIABLES
  table,        \* Parser: the rows of the logs table, in insertion order
  nextId,       \* Parser: the next value of the serial column id
  ing           \* Parser: the AddLogsHandler goroutine and its pipeline

VARIABLES
  sess,         \* Parser: a client paging through GET /logs
  del           \* Parser: the last DELETE /logs request and its answer

VARIABLES
  osExit        \* Parser: log.Fatalf has ended the process

VARIABLES
  compiled      \* Parser: the last call of a query compiler, inputs and result

VARIABLES
  bat           \* Generator: one worker's batching loop, taken alone

VARIABLES
  ml            \* Parser: the package variable mlService and the last /ml/insights

VARIABLES
  pg,           \* Parser: a paging session over rows whose times have fractions
  ana,          \* Parser: the last call of an analytic function, inputs and result
  idx           \* Parser: the storage adapter at start-up and the store's schema

ingVars == <<ing>>
dbVars == <<table, nextId>>
apiVars == <<sess, del>>

procVars == <<osExit>>

compilerVars == <<compiled>>

mlVars == <<ml>>

\* the Parser's handlers and compilers
storeVars == <<dbVars, ingVars, apiVars, procVars, compilerVars, mlVars>>

\* the Parser's components that are taken alone
sideVars == <<pg, ana, idx>>

parserVars == <<storeVars, sideVars>>

batchVars == <<bat>>

\* what the controller and the producer runs leave alone
restVars == <<parserVars, batchVars>>

vars == <<genVars, batchVars, parserVars>>

(***************************************************************************)
(* Generator: LogHandler, validation part.                                 *)
(***************************************************************************)
\* the switch on unitStr: only s, m and h have a duration
ValidUnit(unitStr) == unitStr \in {"s", "m", "h"}

\* rate and unit after decoding: the body's values when the body decodes, else
\* RateData, else ConfigData; ok is FALSE when the handler answers 400 "missing"
RateAndUnit(body) ==
  IF ~body.decoded
  THEN IF RateData.NumLogs <= 0 \/ RateData.Unit = ""
       THEN IF ConfigData.KEY_RATE <= 0 \/ ConfigData.KEY_UNIT = ""
            THEN [ok |-> FALSE, rate |-> ConfigData.KEY_RATE, unitStr |-> ConfigData.KEY_UNIT]
            ELSE [ok |-> TRUE, rate |-> ConfigData.KEY_RATE, unitStr |-> ConfigData.KEY_UNIT]
       ELSE [ok |-> TRUE, rate |-> RateData.NumLogs, unitStr |-> RateData.Unit]
  ELSE [ok |-> TRUE, rate |-> body.NumLogs, unitStr |-> body.Unit]

NoTask == [pc |-> "none", cntx |-> 0, rate |-> 0]

\* LogHandler up to the unit switch: the goroutine's next position, its rate
\* and unitStr, and the response when it answers 405 or 400 here
Validate(method, body) ==
  LET ru == RateAndUnit(body) IN
  IF method # "POST"
  THEN [pc |-> "done", method |-> method, body |-> body, rate |-> 0, unitStr |-> "",
        resp |-> SendResponse(405, FALSE, MsgOnlyPost)]
  ELSE IF ~ru.ok
  THEN [pc |-> "done", method |-> method, body |-> body, rate |-> ru.rate,
        unitStr |-> ru.unitStr, resp |-> SendResponse(400, FALSE, MsgMissing)]
  ELSE IF ~ValidUnit(ru.unitStr)
  THEN [pc |-> "done", method |-> method, body |-> body, rate |-> ru.rate,
        unitStr |-> ru.unitStr, resp |-> SendResponse(400, FALSE, MsgInvalidUnit)]
  ELSE [pc |-> "cancel", method |-> method, body |-> body, rate |-> ru.rate,
        unitStr |-> ru.unitStr, resp |-> NoResponse]

\* requests are numbered in the order they arrive
LogHandlerValidate(r) ==
  /\ req[r].pc = "idle"
  /\ IF r = 1 THEN TRUE ELSE req[r - 1].pc # "idle"
  /\ \E method \in Methods, body \in Bodies :
       \* a request of another method is answered before its body is read
       /\ IF method = "POST" THEN TRUE ELSE body = NoBody
       /\ req' = [req EXCEPT ![r] = Validate(method, body)]
  /\ stopClean' = FALSE
  /\ UNCHANGED <<RateData, ConfigData, cancelFunc, cancelled, nextCtx, task,
                 statusChan, wg, run, ship>>

\* cancelFunc(): the context the stored function cancels is cancelled
Cancel(c) == IF c = 0 THEN cancelled ELSE cancelled \cup {c}

\* mu.Lock(); if cancelFunc != nil { cancelFunc() }; mu.Unlock();
\* go s.startLogGenerationTask(rate, unitStr, duration, statusChan)
LogHandlerCancelPrev(r) ==
  /\ req[r].pc = "cancel"
  /\ cancelled' = Cancel(cancelFunc)
  /\ task' = [task EXCEPT ![r] = [pc |-> "init", cntx |-> 0, rate |-> req[r].rate]]
  /\ req' = [req EXCEPT ![r].pc = "wait"]
  /\ UNCHANGED <<RateData, ConfigData, cancelFunc, nextCtx, statusChan, wg, run,
                 ship, stopClean>>

\* case statusMsg := <-statusChan
StatusResponse(statusMsg) == SendResponse(200, TRUE, statusMsg)

\* an answer that does not wait for the producer: success on expiry
EarlyAck == SendResponse(200, TRUE, MsgInProgress)

\* case <-time.After(3 * time.Second)
TimeoutResponse == SendResponse(408, FALSE, MsgNoStatus)

LogHandlerStatus(r) ==
  /\ req[r].pc = "wait"
  /\ statusChan[r] # <<>>
  /\ req' = [req EXCEPT ![r].pc = "done", ![r].resp = StatusResponse(Head(statusChan[r]))]
  /\ statusChan' = [statusChan EXCEPT ![r] = Tail(@)]
  /\ UNCHANGED <<RateData, ConfigData, cancelFunc, cancelled, nextCtx, task, wg,
                 run, ship, stopClean>>

LogHandlerTimeout(r) ==
  /\ req[r].pc = "wait"
  /\ req' = [req EXCEPT ![r].pc = "done", ![r].resp = TimeoutResponse]
  /\ UNCHANGED <<RateData, ConfigData, cancelFunc, cancelled, nextCtx, task,
                 statusChan, wg, run, ship, stopClean>>

(***************************************************************************)
(* Generator: startLogGenerationTask.                                      *)
(***************************************************************************)
\* capacity of statusChan: make(chan string, 1)
StatusChanCap == 1

\* select { case statusChan <- msg: default: }: a send that never blocks
Offer(ch, msg) == IF Len(ch) < StatusChanCap THEN Append(ch, msg) ELSE ch

NoRun == [pc |-> "none", task |-> 0, numLogs |-> 0, generatedLogs |-> 0, wk |-> <<>>]

\* go s.LogGen.GenerateLogsConcurrently(cntx, rate, duration, &wg, statusChan)
NewRun(t, rate) ==
  [pc |-> "spawn", task |-> t, numLogs |-> rate, generatedLogs |-> 0, wk |-> <<>>]

\* cntx, cancel := context.WithCancel(context.Background());
\* mu.Lock(); cancelFunc = cancel; mu.Unlock()
TaskInstall(t) ==
  /\ task[t].pc = "init"
  /\ nextCtx <= MaxCtx
  /\ task' = [task EXCEPT ![t].pc = "check", ![t].cntx = nextCtx]
  /\ cancelFunc' = nextCtx
  /\ nextCtx' = nextCtx + 1
  /\ UNCHANGED <<RateData, ConfigData, cancelled, req, statusChan, wg, run, ship, stopClean>>

\* if rate <= 0: offer the message, cntx.Done() (which cancels nothing), return
TaskSkip(t) ==
  /\ task[t].pc = "check"
  /\ task[t].rate <= 0
  /\ statusChan' = [statusChan EXCEPT ![t] = Offer(@, MsgSkip)]
  /\ task' = [task EXCEPT ![t].pc = "done"]
  /\ UNCHANGED <<RateData, ConfigData, cancelFunc, cancelled, nextCtx, req, wg,
                 run, ship, stopClean>>

\* the first go GenerateLogsConcurrently, with no wg.Add
TaskStartRun(t) ==
  /\ task[t].pc = "check"
  /\ task[t].rate > 0
  /\ run' = [run EXCEPT ![task[t].cntx] = NewRun(t, task[t].rate)]
  /\ task' = [task EXCEPT ![t].pc = "loop"]
  /\ UNCHANGED <<RateData, ConfigData, cancelFunc, cancelled, nextCtx, req,
                 statusChan, wg, ship, stopClean>>

\* select: case <-ticker.C
TaskTick(t) ==
  /\ task[t].pc = "loop"
  /\ nextCtx <= MaxCtx
  /\ task' = [task EXCEPT ![t].pc = "tick"]
  /\ UNCHANGED <<RateData, ConfigData, cancelFunc, cancelled, nextCtx, req,
                 statusChan, wg, run, ship, stopClean>>

\* the ticker case with the new context declared by := in the case's scope:
\* the loop goes on selecting on the context it has just cancelled
TaskRestartShadowed(t) ==
  /\ task[t].pc = "tick"
  /\ nextCtx <= MaxCtx
  /\ cancelled' = Cancel(cancelFunc)
  /\ cancelFunc' = nextCtx
  /\ task' = [task EXCEPT ![t].pc = "loop"]
  /\ nextCtx' = nextCtx + 1
  /\ wg' = [wg EXCEPT ![t] = @ + 1]
  /\ run' = [run EXCEPT ![nextCtx] = NewRun(t, task[t].rate)]
  /\ UNCHANGED <<RateData, ConfigData, req, statusChan, ship, stopClean>>

\* the body of the ticker case: cancel whatever cancelFunc holds, take a new
\* context, store its cancel, wg.Add(1), start the next producer run
TaskRestart(t) ==
  /\ task[t].pc = "tick"
  /\ nextCtx <= MaxCtx
  /\ cancelled' = Cancel(cancelFunc)
  /\ cancelFunc' = nextCtx
  /\ task' = [task EXCEPT ![t].pc = "loop", ![t].cntx = nextCtx]
  /\ nextCtx' = nextCtx + 1
  /\ wg' = [wg EXCEPT ![t] = @ + 1]
  /\ run' = [run EXCEPT ![nextCtx] = NewRun(t, task[t].rate)]
  /\ UNCHANGED <<RateData, ConfigData, req, statusChan, ship, stopClean>>

\* select: case <-cntx.Done(): return
TaskDone(t) ==
  /\ task[t].pc = "loop"
  /\ task[t].cntx \in cancelled
  /\ task' = [task EXCEPT ![t].pc = "done"]
  /\ UNCHANGED <<RateData, ConfigData, cancelFunc, cancelled, nextCtx, req,
                 statusChan, wg, run, ship, stopClean>>

(***************************************************************************)
(* Generator: GenerateLogsConcurrently, its workers, and the shipper.      *)
(***************************************************************************)
\* the batch is sent once it holds this many lines
BatchMaxLines == 100
\* const maxBatchSizeBytes
maxBatchSizeBytes == 10 * 1024 * 1024
\* len() of a generated line: every line of the model has this size
LogSize == 150

OptimalWorkers(numLogs) ==
  LET byLogs == IF numLogs > 1000
                THEN IF numLogs \div 1000 > NumCPU * 2 THEN NumCPU * 2
                     ELSE numLogs \div 1000
                ELSE NumCPU
  IN IF byLogs < 1 THEN 1 ELSE byLogs

LogsPerWorker(numLogs) == numLogs \div OptimalWorkers(numLogs)

StartIndex(workerID, numLogs) == workerID * LogsPerWorker(numLogs)

\* an end index without the last worker's share of the remainder
EndIndexNoRemainder(workerID, numLogs) ==
  StartIndex(workerID, numLogs) + LogsPerWorker(numLogs)

EndIndex(workerID, numLogs) ==
  IF workerID = OptimalWorkers(numLogs) - 1 THEN numLogs
  ELSE StartIndex(workerID, numLogs) + LogsPerWorker(numLogs)

\* the loop over the workers: counter.Add(1); go func(workerID) {...}
RunSpawn(c) ==
  /\ run[c].pc = "spawn"
  /\ LET n == run[c].numLogs IN
     /\ run' = [run EXCEPT ![c].pc = "wait",
                           ![c].wk = [w \in 0..(OptimalWorkers(n) - 1) |->
                                        [pc |-> "loop", logIndex |-> StartIndex(w, n),
                                         endIndex |-> EndIndex(w, n), batch |-> 0]]]
     /\ wg' = [wg EXCEPT ![run[c].task] = @ + OptimalWorkers(n)]
  /\ UNCHANGED <<RateData, ConfigData, cancelFunc, cancelled, nextCtx, req, task,
                 statusChan, ship, stopClean>>

\* counter.Wait() returns and GenerateLogsConcurrently with it
RunReturn(c) ==
  /\ run[c].pc = "wait"
  /\ wg[run[c].task] = 0
  /\ run' = [run EXCEPT ![c].pc = "ret"]
  /\ UNCHANGED <<RateData, ConfigData, cancelFunc, cancelled, nextCtx, req, task,
                 statusChan, wg, ship, stopClean>>

\* the batch and the number of batches sent after one more line: a batch that
\* would pass maxBatchSizeBytes is sent before the line is added, a batch that
\* reaches BatchMaxLines right after
AfterLine(batch) ==
  LET early == batch * LogSize + LogSize > maxBatchSizeBytes
      held == IF early THEN 1 ELSE batch + 1
      late == held >= BatchMaxLines
  IN [batch |-> IF late THEN 0 ELSE held,
      sent |-> (IF early THEN 1 ELSE 0) + (IF late THEN 1 ELSE 0)]

\* a worker whose loop runs to numLogs instead of its endIndex and that
\* counts its line without looking at generatedLogs
WorkerTickUnguarded(c, w) ==
  /\ run[c].pc = "wait"
  /\ run[c].wk[w].pc = "loop"
  /\ run[c].wk[w].logIndex < run[c].numLogs
  /\ LET a == AfterLine(run[c].wk[w].batch) IN
     /\ run' = [run EXCEPT ![c].generatedLogs = @ + 1,
                           ![c].wk[w].batch = a.batch,
                           ![c].wk[w].logIndex = @ + 1]
     /\ ship' = [ship EXCEPT ![run[c].task] = @ + a.sent]
  /\ UNCHANGED <<RateData, ConfigData, cancelFunc, cancelled, nextCtx, req, task,
                 statusChan, wg, stopClean>>

\* case <-logTicker.C: under the run's mutex count the line, or return when
\* generatedLogs has reached numLogs; then generate the line and batch it
WorkerTick(c, w) ==
  /\ run[c].pc = "wait"
  /\ run[c].wk[w].pc = "loop"
  /\ run[c].wk[w].logIndex < run[c].wk[w].endIndex
  /\ IF run[c].generatedLogs >= run[c].numLogs
     THEN /\ run' = [run EXCEPT ![c].wk[w].pc = "exit"]
          /\ wg' = [wg EXCEPT ![run[c].task] = @ - 1]
          /\ ship' = ship
     ELSE LET a == AfterLine(run[c].wk[w].batch) IN
          /\ run' = [run EXCEPT ![c].generatedLogs = @ + 1,
                                ![c].wk[w].batch = a.batch,
                                ![c].wk[w].logIndex = @ + 1]
          /\ ship' = [ship EXCEPT ![run[c].task] = @ + a.sent]
          /\ wg' = wg
  /\ UNCHANGED <<RateData, ConfigData, cancelFunc, cancelled, nextCtx, req, task,
                 statusChan, stopClean>>

\* a return on cancellation that skips counter.Done()
WorkerCancelNoDone(c, w) ==
  /\ run[c].pc = "wait"
  /\ run[c].wk[w].pc = "loop"
  /\ c \in cancelled
  /\ run' = [run EXCEPT ![c].wk[w].pc = "exit"]
  /\ UNCHANGED <<RateData, ConfigData, cancelFunc, cancelled, nextCtx, req, task,
                 statusChan, wg, ship, stopClean>>

\* case <-ctx.Done(): return (the deferred counter.Done() runs)
WorkerCancel(c, w) ==
  /\ run[c].pc = "wait"
  /\ run[c].wk[w].pc = "loop"
  /\ run[c].wk[w].logIndex < run[c].wk[w].endIndex
  /\ c \in cancelled
  /\ run' = [run EXCEPT ![c].wk[w].pc = "exit"]
  /\ wg' = [wg EXCEPT ![run[c].task] = @ - 1]
  /\ UNCHANGED <<RateData, ConfigData, cancelFunc, cancelled, nextCtx, req, task,
                 statusChan, ship, stopClean>>

\* the loop is over: if len(batch) > 0 { go SendLogToProcessor(batch) }; the
\* lines handed to the shipper are no longer pending
WorkerFinish(c, w) ==
  /\ run[c].pc = "wait"
  /\ run[c].wk[w].pc = "loop"
  /\ run[c].wk[w].logIndex >= run[c].wk[w].endIndex
  /\ run' = [run EXCEPT ![c].wk[w].pc = "exit", ![c].wk[w].batch = 0]
  /\ wg' = [wg EXCEPT ![run[c].task] = @ - 1]
  /\ ship' = [ship EXCEPT ![run[c].task] =
                IF run[c].wk[w].batch > 0 THEN @ + 1 ELSE @]
  /\ UNCHANGED <<RateData, ConfigData, cancelFunc, cancelled, nextCtx, req, task,
                 statusChan, stopClean>>

\* what client.Post gives: an error, 200, or another status
PostOutcomes == {"error", "200", "other"}

StatusMessage(outcome) ==
  IF outcome = "error" THEN MsgSendError
  ELSE IF outcome = "200" THEN MsgSent ELSE MsgSendFailed

\* a shipper that sends its status with a plain statusChan <- msg
SendLogToProcessorBlocking(t) ==
  /\ ship[t] > 0
  /\ Len(statusChan[t]) < StatusChanCap
  /\ \E outcome \in PostOutcomes :
       statusChan' = [statusChan EXCEPT ![t] = Append(@, StatusMessage(outcome))]
  /\ ship' = [ship EXCEPT ![t] = @ - 1]
  /\ UNCHANGED <<RateData, ConfigData, cancelFunc, cancelled, nextCtx, req, task,
                 wg, run, stopClean>>

\* SendLogToProcessor(logs, statusChan): post the batch, offer the outcome
SendLogToProcessor(t) ==
  /\ ship[t] > 0
  /\ \E outcome \in PostOutcomes :
       statusChan' = [statusChan EXCEPT ![t] = Offer(@, StatusMessage(outcome))]
  /\ ship' = [ship EXCEPT ![t] = @ - 1]
  /\ UNCHANGED <<RateData, ConfigData, cancelFunc, cancelled, nextCtx, req, task,
                 wg, run, stopClean>>

(***************************************************************************)
(* Generator: the stop and status endpoints.  helper.go registers          *)
(* serv.StopHandler and serv.StatusHandler; their bodies follow the        *)
(* description of POST /logs/stop and GET /logs/status.                     *)
(***************************************************************************)
\* a task whose controller loop runs with a context nobody has cancelled
TaskActive(t) == task[t].pc \in {"loop", "tick"} /\ task[t].cntx \notin cancelled

\* no start request is between its arrival and the storing of its task's cancel
NoStartInFlight ==
  \A r \in Reqs : req[r].pc \in {"idle", "wait", "done"} /\ task[r].pc # "init"

\* POST /logs/stop: cancels the running task if any
StopHandler ==
  /\ cancelFunc # 0
  /\ cancelled' = Cancel(cancelFunc)
  /\ stopClean' = NoStartInFlight
  /\ UNCHANGED <<RateData, ConfigData, cancelFunc, nextCtx, req, task, statusChan,
                 wg, run, ship>>

\* GET /logs/status: the active field
StatusHandler == \E t \in Reqs : TaskActive(t)

(***************************************************************************)
(* Generator: configuration at startup and the specification.              *)
(***************************************************************************)
\* what the environment may hold for GENERATOR_RATE and GENERATOR_UNIT, and
\* config.yaml for KEY_RATE and KEY_UNIT
EnvRates == {0, 1}
EnvUnits == {"s"}
YamlRates == {MaxRate}
YamlUnits == {"s"}

\* FirstLoad: RateData from the environment; LoadConfigFromYaml, when it runs,
\* fills ConfigData and repairs a RateData that is not usable
FirstLoad(envRate, envUnit, yamlRead, yamlRate, yamlUnit) ==
  IF yamlRead
  THEN [rate |-> [NumLogs |-> IF envRate <= 0 THEN yamlRate ELSE envRate,
                  Unit |-> IF ValidUnit(envUnit) THEN envUnit ELSE yamlUnit],
        config |-> [KEY_RATE |-> yamlRate, KEY_UNIT |-> yamlUnit]]
  ELSE [rate |-> [NumLogs |-> envRate, Unit |-> envUnit],
        config |-> [KEY_RATE |-> 0, KEY_UNIT |-> ""]]

IdleReq == [pc |-> "idle", method |-> "", body |-> NoBody,
            rate |-> 0, unitStr |-> "", resp |-> NoResponse]

InitGen ==
  /\ \E envRate \in EnvRates, envUnit \in EnvUnits, yamlRead \in BOOLEAN,
        yamlRate \in YamlRates, yamlUnit \in YamlUnits :
       LET c == FirstLoad(envRate, envUnit, yamlRead, yamlRate, yamlUnit) IN
       /\ RateData = c.rate
       /\ ConfigData = c.config
  /\ cancelFunc = 0
  /\ cancelled = {}
  /\ nextCtx = MaxCtx - GenCtxs + 1
  /\ req = [r \in Reqs |-> IdleReq]
  /\ task = [r \in Reqs |-> NoTask]
  /\ statusChan = [r \in Reqs |-> <<>>]
  /\ wg = [r \in Reqs |-> 0]
  /\ run = [c \in Ctxs |-> NoRun]
  /\ ship = [r \in Reqs |-> 0]
  /\ stopClean = FALSE

NextGen ==
  \/ \E r \in Reqs : LogHandlerValidate(r) /\ UNCHANGED restVars
  \/ \E r \in Reqs : LogHandlerCancelPrev(r) /\ UNCHANGED restVars
  \/ \E r \in Reqs : LogHandlerStatus(r) /\ UNCHANGED restVars
  \/ \E r \in Reqs : LogHandlerTimeout(r) /\ UNCHANGED restVars
  \/ \E t \in Reqs : TaskInstall(t) /\ UNCHANGED restVars
  \/ \E t \in Reqs : TaskSkip(t) /\ UNCHANGED restVars
  \/ \E t \in Reqs : TaskStartRun(t) /\ UNCHANGED restVars
  \/ \E t \in Reqs : TaskTick(t) /\ UNCHANGED restVars
  \/ \E t \in Reqs : TaskRestart(t) /\ UNCHANGED restVars
  \/ \E t \in Reqs : TaskDone(t) /\ UNCHANGED restVars
  \/ \E c \in Ctxs : RunSpawn(c) /\ UNCHANGED restVars
  \/ \E c \in Ctxs : RunReturn(c) /\ UNCHANGED restVars
  \/ \E c \in Ctxs : \E w \in DOMAIN run[c].wk : WorkerTick(c, w) /\ UNCHANGED restVars
  \/ \E c \in Ctxs : \E w \in DOMAIN run[c].wk : WorkerCancel(c, w) /\ UNCHANGED restVars
  \/ \E c \in Ctxs : \E w \in DOMAIN run[c].wk : WorkerFinish(c, w) /\ UNCHANGED restVars
  \/ \E t \in Reqs : SendLogToProcessor(t) /\ UNCHANGED restVars
  \/ StopHandler /\ UNCHANGED restVars

(***************************************************************************)
(* LogParser: the logs table and the ingest pipeline of POST /logs.        *)
(***************************************************************************)
MaxTime == 2
MaxLines == 3
MaxRows == 3

\* time.Time{}: the zero time a failed time.Parse leaves in the record
ZeroTime == 0
Times == 1..MaxTime

\* models.Log{}: the record ParseLog returns for a line the regex rejects
ZeroLog ==
  [RemoteAddr |-> "", RemoteUser |-> "", TimeLocal |-> ZeroTime, Request |-> "",
   Status |-> 0, BodyBytesSent |-> 0, HttpReferer |-> "", HttpUserAgent |-> "",
   HttpXForwardedFor |-> ""]

\* A raw line: whether the regex of ParseLog matches it, and its nine captures.
\* The bracketed capture is a text in some layout denoting a second.
AccessLine(layout, sec) ==
  [form |-> "match", addr |-> "10.0.0.1", user |-> "-",
   time |-> [layout |-> layout, sec |-> sec], request |-> "GET / HTTP/1.1",
   status |-> 200, bytes |-> 512, referer |-> "-", agent |-> "curl", xff |-> "-"]

Garbage ==
  [form |-> "nomatch", addr |-> "", user |-> "", time |-> [layout |-> "", sec |-> 0],
   request |-> "", status |-> 0, bytes |-> 0, referer |-> "", agent |-> "", xff |-> ""]

Lines ==
  {AccessLine("RFC3339", t) : t \in Times} \cup {AccessLine("CLF", 1), Garbage}

RECURSIVE SeqsUpTo(_, _)
SeqsUpTo(S, n) ==
  IF n = 0 THEN {<<>>}
  ELSE LET shorter == SeqsUpTo(S, n - 1)
       IN shorter \cup {Append(q, x) : q \in {z \in shorter : Len(z) = n - 1}, x \in S}

\* time.Parse(time.RFC3339, text): the pair <<err, value>>
TimeParseRFC3339(text) ==
  IF text.layout = "RFC3339" THEN [err |-> FALSE, t |-> text.sec]
  ELSE [err |-> TRUE, t |-> ZeroTime]

ParseLog(logStr) ==
  IF logStr.form = "match"
  THEN LET parsed == TimeParseRFC3339(logStr.time)
           logTime == IF parsed.err THEN ZeroTime ELSE parsed.t
       IN [RemoteAddr |-> logStr.addr, RemoteUser |-> logStr.user,
           TimeLocal |-> logTime, Request |-> logStr.request,
           Status |-> logStr.status, BodyBytesSent |-> logStr.bytes,
           HttpReferer |-> logStr.referer, HttpUserAgent |-> logStr.agent,
           HttpXForwardedFor |-> logStr.xff]
  ELSE ZeroLog

Columns ==
  <<"RemoteAddr", "RemoteUser", "TimeLocal", "Request", "Status", "BodyBytesSent",
    "HttpReferer", "HttpUserAgent", "HttpXForwardedFor">>

\* GenerateAddQuery numbering the groups from 1 where the range index starts at 0
GenerateAddQueryOneBased(logs) ==
  [verb |-> "INSERT",
   placeholders |-> [i \in 1..Len(logs) |-> [k \in 1..9 |-> i * 9 + k]],
   values |-> [n \in 1..(9 * Len(logs)) |->
                 logs[((n - 1) \div 9) + 1][Columns[((n - 1) % 9) + 1]]]]

\* GenerateAddQuery: one group of nine numbered placeholders per entry, and the
\* entries' fields flattened in the same order
GenerateAddQuery(logs) ==
  [verb |-> "INSERT",
   placeholders |-> [i \in 1..Len(logs) |-> [k \in 1..9 |-> (i - 1) * 9 + k]],
   values |-> [n \in 1..(9 * Len(logs)) |->
                 logs[((n - 1) \div 9) + 1][Columns[((n - 1) % 9) + 1]]]]

\* db.Exec of an INSERT: "VALUES" followed by no tuple is a syntax error;
\* otherwise every tuple becomes a row with the next serial id
ExecInsert(query, values, serial) ==
  IF Len(query.placeholders) = 0
  THEN [err |-> TRUE, rows |-> <<>>]
  ELSE [err |-> FALSE,
        rows |-> [i \in 1..Len(query.placeholders) |->
                    [id |-> serial + i - 1,
                     RemoteAddr |-> values[query.placeholders[i][1]],
                     RemoteUser |-> values[query.placeholders[i][2]],
                     TimeLocal |-> values[query.placeholders[i][3]],
                     Request |-> values[query.placeholders[i][4]],
                     Status |-> values[query.placeholders[i][5]],
                     BodyBytesSent |-> values[query.placeholders[i][6]],
                     HttpReferer |-> values[query.placeholders[i][7]],
                     HttpUserAgent |-> values[query.placeholders[i][8]],
                     HttpXForwardedFor |-> values[query.placeholders[i][9]]]]]

IngestWorkers == 1..NumCPU

\* json.NewDecoder(r.Body).Decode(&logstr): a JSON array of strings decodes to
\* its elements, any other body is an error
Undecodable == [err |-> TRUE, logstr |-> <<>>]
RequestBodies ==
  {[err |-> FALSE, logstr |-> l] : l \in SeqsUpTo(Lines, MaxLines)} \cup {Undecodable}
OtherMethods == {"PUT", "PATCH"}

IdleIng ==
  [pc |-> "idle", method |-> "POST", decodeErr |-> FALSE, store |-> "alive",
   logstr |-> <<>>, logsChan |-> <<>>, resultsChan |-> <<>>,
   held |-> [w \in IngestWorkers |-> <<>>],
   resultsClosed |-> FALSE, exited |-> {}, logEntries |-> <<>>,
   resp |-> NoResponse, rowsAffected |-> 0]

MsgStored == "Logs stored successfully, %d rows inserted."
MsgInsertFailed == "Failed to insert logs"
MsgDBDown == "Failed to connect to Database!"
MsgDecodeFailed == "Failed to decode log data"
MsgOnlyMethods == "Only GET, POST, DELETE methods are allowed to execute the task"
MsgQueryFailed == "Failed to query database : %v"
MsgDeleteFailed == "Failed to execute delete query: %v"

\* what connection.DB is when a request arrives: a pool whose server answers,
\* nil, or a pool whose server cannot be reached
StoreStates == {"alive", "nil", "unreachable"}

\* connection.PingDB: a nil pool is reported, a failed ping ends in log.Fatalf
PingDB(store) ==
  [isAlive |-> store = "alive", fatal |-> store = "unreachable"]

\* AddLogsHandler up to close(logsChan): the body is decoded, the store is
\* pinged, the workers are started and every line is queued (the channel has
\* room for all of them)
AddLogsHandler(body, store) ==
  /\ ~osExit
  /\ ing.pc \in {"idle", "done"}
  /\ Len(table) + Len(body.logstr) <= MaxRows
  /\ LET ping == PingDB(store)
         request == [IdleIng EXCEPT !.decodeErr = body.err, !.logstr = body.logstr]
     IN IF body.err
        THEN /\ ing' = [request EXCEPT !.pc = "done",
                                       !.resp = HttpError(MsgDecodeFailed, 400)]
             /\ UNCHANGED osExit
        ELSE /\ osExit' = ping.fatal
             /\ ing' = IF ping.fatal
                       THEN [request EXCEPT !.pc = "done", !.store = store]
                       ELSE IF ~ping.isAlive
                       THEN [request EXCEPT !.pc = "done", !.store = store,
                                            !.resp = SendResponse(500, FALSE, MsgDBDown)]
                       ELSE [request EXCEPT !.pc = "collect", !.store = store,
                                            !.logsChan = body.logstr]
  /\ UNCHANGED <<genVars, batchVars, sideVars, mlVars, compilerVars, dbVars, apiVars>>

\* HandleType, the default case of the switch on r.Method
HandleTypeDefault(method) ==
  /\ ~osExit
  /\ ing.pc \in {"idle", "done"}
  /\ ing' = [IdleIng EXCEPT !.pc = "done", !.method = method,
                            !.resp = SendResponse(405, FALSE, MsgOnlyMethods)]
  /\ UNCHANGED <<genVars, batchVars, sideVars, mlVars, compilerVars, dbVars, apiVars, procVars>>

\* a worker that reads the head of logsChan and leaves it in the channel
ProcessLogWorkerPeek(w) ==
  /\ ~osExit
  /\ ing.pc = "collect"
  /\ w \notin ing.exited
  /\ ing.held[w] = <<>>
  /\ ing.logsChan # <<>>
  /\ ing' = [ing EXCEPT !.held[w] = <<Head(ing.logsChan)>>]
  /\ UNCHANGED <<genVars, batchVars, sideVars, mlVars, compilerVars, dbVars, apiVars, procVars>>

\* ProcessLogWorker, for logStr := range logs: the worker receives a line
ProcessLogWorker(w) ==
  /\ ~osExit
  /\ ing.pc = "collect"
  /\ w \notin ing.exited
  /\ ing.held[w] = <<>>
  /\ ing.logsChan # <<>>
  /\ ing' = [ing EXCEPT !.logsChan = Tail(@),
                        !.held[w] = <<Head(ing.logsChan)>>]
  /\ UNCHANGED <<genVars, batchVars, sideVars, mlVars, compilerVars, dbVars, apiVars, procVars>>

\* ProcessLogWorker, the loop body: logEntry := ParseLog(logStr); results <- logEntry
ProcessLogWorkerSend(w) ==
  /\ ~osExit
  /\ ing.pc = "collect"
  /\ ing.held[w] # <<>>
  /\ ing' = [ing EXCEPT !.held[w] = <<>>,
                        !.resultsChan = Append(@, ParseLog(ing.held[w][1]))]
  /\ UNCHANGED <<genVars, batchVars, sideVars, mlVars, compilerVars, dbVars, apiVars, procVars>>

\* ProcessLogWorker: the closed channel is drained, the deferred wg.Done runs
ProcessLogWorkerExit(w) ==
  /\ ~osExit
  /\ ing.pc = "collect"
  /\ w \notin ing.exited
  /\ ing.held[w] = <<>>
  /\ ing.logsChan = <<>>
  /\ ing' = [ing EXCEPT !.exited = @ \cup {w}]
  /\ UNCHANGED <<genVars, batchVars, sideVars, mlVars, compilerVars, dbVars, apiVars, procVars>>

\* a closer goroutine that closes resultsChan without wg.Wait()
CloseResultsEarly ==
  /\ ~osExit
  /\ ing.pc = "collect"
  /\ ~ing.resultsClosed
  /\ ing' = [ing EXCEPT !.resultsClosed = TRUE]
  /\ UNCHANGED <<genVars, batchVars, sideVars, mlVars, compilerVars, dbVars, apiVars, procVars>>

\* the closer goroutine: wg.Wait(); close(resultsChan)
CloseResults ==
  /\ ~osExit
  /\ ing.pc = "collect"
  /\ ~ing.resultsClosed
  /\ ing.exited = IngestWorkers
  /\ ing' = [ing EXCEPT !.resultsClosed = TRUE]
  /\ UNCHANGED <<genVars, batchVars, sideVars, mlVars, compilerVars, dbVars, apiVars, procVars>>

\* for logEntry := range resultsChan { logEntries = append(logEntries, logEntry) }
CollectResult ==
  /\ ~osExit
  /\ ing.pc = "collect"
  /\ ing.resultsChan # <<>>
  /\ ing' = [ing EXCEPT !.resultsChan = Tail(@),
                        !.logEntries = Append(@, Head(ing.resultsChan))]
  /\ UNCHANGED <<genVars, batchVars, sideVars, mlVars, compilerVars, dbVars, apiVars, procVars>>

\* the range loop ends; the INSERT is built and executed, the response is written
InsertLogs ==
  /\ ~osExit
  /\ ing.pc = "collect"
  /\ ing.resultsClosed
  /\ ing.resultsChan = <<>>
  /\ LET query == GenerateAddQuery(ing.logEntries)
         result == ExecInsert(query, query.values, nextId)
     IN IF result.err
        THEN /\ ing' = [ing EXCEPT !.pc = "done",
                                   !.resp = SendResponse(500, FALSE, MsgInsertFailed)]
             /\ UNCHANGED dbVars
        ELSE /\ table' = table \o result.rows
             /\ nextId' = nextId + Len(result.rows)
             /\ ing' = [ing EXCEPT !.pc = "done",
                                   !.rowsAffected = Len(result.rows),
                                   !.resp = SendResponse(200, TRUE, MsgStored)]
  /\ UNCHANGED <<genVars, batchVars, sideVars, mlVars, compilerVars, apiVars, procVars>>

NextIngest ==
  \/ \E body \in RequestBodies : \E store \in StoreStates :
       AddLogsHandler(body, store)
  \/ \E method \in OtherMethods : HandleTypeDefault(method)
  \/ \E w \in IngestWorkers : ProcessLogWorker(w)
  \/ \E w \in IngestWorkers : ProcessLogWorkerSend(w)
  \/ \E w \in IngestWorkers : ProcessLogWorkerExit(w)
  \/ CloseResults
  \/ CollectResult
  \/ InsertLogs

(***************************************************************************)
(* LogParser: the query compiler and the handlers of GET and DELETE /logs. *)
(***************************************************************************)
\* a text holding a time: its layout and the second it denotes
EmptyText == [layout |-> "", sec |-> 0]

\* a nil *string in the paging block of the response
NullCursor == [layout |-> "null", sec |-> 0]

\* t.Format(time.RFC3339)
FormatTime(t) == [layout |-> "RFC3339", sec |-> t]

\* parseDateOrDateTime: RFC3339 first, then the date-only layout (midnight)
parseDateOrDateTime(input) ==
  IF input.layout \in {"RFC3339", "2006-01-02"}
  THEN [err |-> FALSE, t |-> input.sec]
  ELSE [err |-> TRUE, t |-> ZeroTime]

\* strconv.Atoi on the query-parameter texts the model sends
Atoi(s) ==
  CASE s = "1" -> [err |-> FALSE, n |-> 1]
    [] s = "2" -> [err |-> FALSE, n |-> 2]
    [] s = "200" -> [err |-> FALSE, n |-> 200]
    [] s = "404" -> [err |-> FALSE, n |-> 404]
    [] OTHER -> [err |-> TRUE, n |-> 0]

StringColumns == {"remote_addr", "http_referer", "http_user_agent", "http_x_forwarded_for"}
IntColumns == {"status", "body_bytes_sent"}

\* the filter parameters of a request's query string ("" = absent)
NoFilterParams ==
  [remote_addr |-> "", status |-> "", body_bytes_sent |-> "", http_referer |-> "",
   http_user_agent |-> "", http_x_forwarded_for |-> ""]

FilterParams ==
  {[NoFilterParams EXCEPT !.remote_addr = a, !.status = s] :
     a \in {"", "10.0.0.1"}, s \in {"", "200", "abc"}}

\* GenerateFiltersMap: the map as a set of <<column, value>> pairs
GenerateFiltersMap(q) ==
  {<<c, q[c]>> : c \in {k \in StringColumns : q[k] # ""}}
    \cup {<<c, Atoi(q[c]).n>> : c \in {k \in IntColumns : q[k] # "" /\ ~Atoi(q[k]).err}}

\* the orders in which a range over the map may visit its keys
RangeOrders(filters) ==
  {s \in SeqsUpTo(filters, Cardinality(filters)) :
     Len(s) = Cardinality(filters) /\ \A i, j \in 1..Len(s) : i # j => s[i] # s[j]}

\* the filter clauses with the value written where the placeholder belongs
FilterClausesInline(order) ==
  [i \in 1..Len(order) |-> [column |-> order[i][1], op |-> "=", arg |-> order[i][2]]]

\* " AND <column> = $<n>" for the filters in range order, with their values
FilterClauses(order) ==
  [i \in 1..Len(order) |-> [column |-> order[i][1], op |-> "=", arg |-> i]]

FilterArgs(order) == [i \in 1..Len(order) |-> order[i][2]]

DefaultLimit == 10
MaxLimit == 100

\* GetPaginationParams: dayAgo is time.Now().Add(-24 * time.Hour)
GetPaginationParams(limitParam, cursorParam, dayAgo) ==
  LET limitInt == Atoi(limitParam)
      parsed == parseDateOrDateTime(cursorParam)
  IN [Limit |-> IF limitParam # "" /\ ~limitInt.err /\ limitInt.n > 0
                   /\ limitInt.n <= MaxLimit
                THEN limitInt.n ELSE DefaultLimit,
      Cursor |-> IF cursorParam # EmptyText /\ ~parsed.err THEN parsed.t ELSE dayAgo]

NoDateFilter == [Start_time |-> -1, End_time |-> -1]

\* GenerateFilteredGetQuery (a nil time is -1; the cursor is never nil)
GenerateFilteredGetQuery(order, paginationFilter, dateFilter) ==
  LET n == Len(order)
      startC == IF dateFilter.Start_time # -1
                THEN <<[column |-> "time_local", op |-> ">=", arg |-> n + 1]>> ELSE <<>>
      startA == IF dateFilter.Start_time # -1
                THEN <<FormatTime(dateFilter.Start_time)>> ELSE <<>>
      endC == IF dateFilter.End_time # -1
              THEN <<[column |-> "time_local", op |-> "<=",
                      arg |-> n + Len(startC) + 1]>> ELSE <<>>
      endA == IF dateFilter.End_time # -1
              THEN <<FormatTime(dateFilter.End_time)>> ELSE <<>>
      m == n + Len(startC) + Len(endC)
  IN [verb |-> "SELECT",
      where |-> FilterClauses(order) \o startC \o endC
                  \o <<[column |-> "time_local", op |-> ">", arg |-> m + 1]>>,
      orderBy |-> <<>>,
      limit |-> m + 2,
      args |-> FilterArgs(order) \o startA \o endA
                 \o <<FormatTime(paginationFilter.Cursor), paginationFilter.Limit>>]

\* GenerateFilteredCountQuery
GenerateFilteredCountQuery(order) ==
  [verb |-> "SELECT COUNT", where |-> FilterClauses(order), orderBy |-> <<>>,
   limit |-> 0, args |-> FilterArgs(order)]

\* GenerateDeleteQuery
GenerateDeleteQuery(order) ==
  [verb |-> "DELETE", where |-> FilterClauses(order), orderBy |-> <<>>, limit |-> 0,
   args |-> FilterArgs(order)]

\* the value of a column of a stored row
ColumnValue(row, column) ==
  CASE column = "remote_addr" -> row.RemoteAddr
    [] column = "remote_user" -> row.RemoteUser
    [] column = "time_local" -> row.TimeLocal
    [] column = "request" -> row.Request
    [] column = "status" -> row.Status
    [] column = "body_bytes_sent" -> row.BodyBytesSent
    [] column = "http_referer" -> row.HttpReferer
    [] column = "http_user_agent" -> row.HttpUserAgent
    [] column = "http_x_forwarded_for" -> row.HttpXForwardedFor

\* one predicate of a WHERE clause, its placeholder bound to args
Holds(row, clause, args) ==
  CASE clause.op = "=" -> ColumnValue(row, clause.column) = args[clause.arg]
    [] clause.op = ">=" -> ColumnValue(row, clause.column) >= args[clause.arg].sec
    [] clause.op = "<=" -> ColumnValue(row, clause.column) <= args[clause.arg].sec
    [] clause.op = ">" -> ColumnValue(row, clause.column) > args[clause.arg].sec

\* the positions in the table of the rows a statement's WHERE clause selects
Matching(query) ==
  {i \in 1..Len(table) :
     \A k \in 1..Len(query.where) : Holds(table[i], query.where[k], query.args)}

\* db.Query of a SELECT without ORDER BY: the store may return any LIMIT-many
\* of the selected rows, in any order
QueryResults(query) ==
  LET matching == Matching(query)
      n == IF query.args[query.limit] < Cardinality(matching)
           THEN query.args[query.limit] ELSE Cardinality(matching)
  IN {s \in SeqsUpTo(matching, n) :
        Len(s) = n /\ \A i, j \in 1..n : i # j => s[i] # s[j]}

\* db.Exec of a DELETE: the rows that stay
RECURSIVE Remaining(_, _)
Remaining(rows, gone) ==
  IF rows = <<>> THEN <<>>
  ELSE LET rest == Remaining(Tail(rows), {i - 1 : i \in gone \ {1}})
       IN IF 1 \in gone THEN rest ELSE <<Head(rows)>> \o rest

\* the loop over rows.Next(): the first non-zero time seen, and the last time
RECURSIVE FirstLogTime(_)
FirstLogTime(logs) ==
  IF logs = <<>> THEN ZeroTime
  ELSE IF Head(logs).TimeLocal # ZeroTime THEN Head(logs).TimeLocal
  ELSE FirstLogTime(Tail(logs))

LastLogTime(logs) == IF logs = <<>> THEN ZeroTime ELSE logs[Len(logs)].TimeLocal

MsgFetched == "Fetched logs successfully"
MsgNoLogs == "No Logs found"
MsgDeleted == "%d logs deleted successfully."
MsgNoneDeleted == "No logs found matching the provided filters."

\* GetLogsResponse with the test len(logs) == paginationFilter.Limit left out
GetLogsResponseAlwaysNext(paginationFilter, result) ==
  LET logs == [i \in 1..Len(result) |-> table[result[i]]]
      cursor == IF Len(logs) > 0 THEN FormatTime(LastLogTime(logs)) ELSE NullCursor
  IN [code |-> 200, status |-> TRUE, contentType |-> ContentTypeJSON,
      message |-> IF Len(logs) = 0 THEN MsgNoLogs ELSE MsgFetched,
      data |-> [count |-> [total |-> Len(table), fetch |-> Len(logs)],
                logs |-> [i \in 1..Len(logs) |-> [c \in DOMAIN ZeroLog |-> logs[i][c]]],
                paging |-> [next_cursor |-> cursor,
                            prev_cursor |-> IF Len(logs) > 0
                                            THEN FormatTime(FirstLogTime(logs))
                                            ELSE NullCursor,
                            limit |-> paginationFilter.Limit]]]

\* what GetLogsHandler answers once the store is reachable; result is the
\* sequence of table positions db.Query returned
GetLogsResponse(paginationFilter, result) ==
  LET logs == [i \in 1..Len(result) |-> table[result[i]]]
      nextCursor == IF Len(logs) > 0 /\ Len(logs) = paginationFilter.Limit
                    THEN FormatTime(LastLogTime(logs)) ELSE NullCursor
      prevCursor == IF Len(logs) > 0 THEN FormatTime(FirstLogTime(logs))
                    ELSE NullCursor
  IN [code |-> 200, status |-> TRUE, contentType |-> ContentTypeJSON,
      message |-> IF Len(logs) = 0 THEN MsgNoLogs ELSE MsgFetched,
      data |-> [count |-> [total |-> Len(table), fetch |-> Len(logs)],
                logs |-> [i \in 1..Len(logs) |-> [c \in DOMAIN ZeroLog |-> logs[i][c]]],
                paging |-> [next_cursor |-> nextCursor, prev_cursor |-> prevCursor,
                            limit |-> paginationFilter.Limit]]]

\* GetDateFilters: a parse error returns what was parsed so far
GetDateFilters(start, end) ==
  LET parsedStart == parseDateOrDateTime(start)
      parsedEnd == parseDateOrDateTime(end)
      s == IF start # EmptyText /\ ~parsedStart.err THEN parsedStart.t ELSE -1
      e == IF end # EmptyText /\ ~parsedEnd.err THEN parsedEnd.t ELSE -1
  IN IF start # EmptyText /\ parsedStart.err THEN NoDateFilter
     ELSE IF end # EmptyText /\ parsedEnd.err THEN [Start_time |-> s, End_time |-> -1]
     ELSE IF s # -1 /\ e # -1 /\ s > e THEN [Start_time |-> e, End_time |-> s]
     ELSE [Start_time |-> s, End_time |-> e]

LimitParams == {"", "1", "2"}
DateParams ==
  {[start |-> EmptyText, end |-> EmptyText],
   [start |-> FormatTime(MaxTime), end |-> FormatTime(1)]}
DayAgos == {0, 1}

\* db.Query and db.Exec are reached, and so can fail, only after a good ping
QueryErrs(store) == IF PingDB(store).isAlive THEN BOOLEAN ELSE {FALSE}

\* a client that pages through GET /logs by following next_cursor, and gives
\* up at the first request that fails
IdleSess ==
  [pc |-> "idle", sent |-> EmptyText, store |-> "alive", queryErr |-> FALSE,
   limitParam |-> "", q |-> NoFilterParams,
   dates |-> [start |-> EmptyText, end |-> EmptyText], cursor |-> NullCursor,
   first |-> GenerateDeleteQuery(<<>>), returned |-> <<>>, dirty |-> FALSE,
   keyset |-> TRUE, resp |-> NoResponse]

IdleDel ==
  [done |-> FALSE, store |-> "alive", execErr |-> FALSE,
   q |-> NoFilterParams, query |-> GenerateDeleteQuery(<<>>),
   rowsAffected |-> 0, resp |-> NoResponse]

\* the page a keyset scan would return: the selected rows by (time_local, id)
Before(a, b) ==
  \/ table[a].TimeLocal < table[b].TimeLocal
  \/ table[a].TimeLocal = table[b].TimeLocal /\ table[a].id < table[b].id

KeysetPage(query) ==
  LET results == QueryResults(query)
  IN CHOOSE s \in results :
       /\ \A i, j \in 1..Len(s) : i < j => Before(s[i], s[j])
       /\ \A x \in Matching(query) :
            (\A i \in 1..Len(s) : s[i] # x) => \A i \in 1..Len(s) : Before(s[i], x)

\* GetLogsHandler for one request of the session
GetLogsHandler(prior, limitParam, q, dates, cursorParam, store, queryErr, dayAgo) ==
  LET ping == PingDB(store)
      request == [prior EXCEPT !.pc = "failed", !.sent = cursorParam,
                               !.store = store, !.queryErr = queryErr]
  IN
  IF ping.fatal
  THEN /\ sess' = [request EXCEPT !.resp = NoResponse]
       /\ osExit' = TRUE
  ELSE IF ~ping.isAlive
  THEN /\ sess' = [request EXCEPT !.resp = SendResponse(500, FALSE, MsgDBDown)]
       /\ UNCHANGED osExit
  ELSE IF queryErr
  THEN /\ sess' = [request EXCEPT !.resp = SendResponse(405, FALSE, MsgQueryFailed)]
       /\ UNCHANGED osExit
  ELSE /\ UNCHANGED osExit
       /\ \E order \in RangeOrders(GenerateFiltersMap(q)) :
         LET paginationFilter == GetPaginationParams(limitParam, cursorParam, dayAgo)
             dateFilter == GetDateFilters(dates.start, dates.end)
             query == GenerateFilteredGetQuery(order, paginationFilter, dateFilter)
         IN \E result \in QueryResults(query) :
              LET resp == GetLogsResponse(paginationFilter, result)
                  next == resp.data.paging.next_cursor
              IN sess' = [pc |-> IF next = NullCursor THEN "end" ELSE "paging",
                          sent |-> cursorParam, store |-> store, queryErr |-> FALSE,
                          limitParam |-> limitParam, q |-> q, dates |-> dates,
                          cursor |-> next,
                          first |-> IF cursorParam = EmptyText THEN query
                                    ELSE prior.first,
                          returned |-> prior.returned
                                         \o [i \in 1..Len(result) |-> table[result[i]].id],
                          dirty |-> prior.dirty,
                          keyset |-> prior.keyset /\ result = KeysetPage(query),
                          resp |-> resp]

\* the first request of a session carries no cursor
FirstPage(limitParam, q, dates, store, queryErr, dayAgo) ==
  /\ ~osExit
  /\ sess.pc = "idle"
  /\ GetLogsHandler(IdleSess, limitParam, q, dates, EmptyText, store, queryErr, dayAgo)
  /\ UNCHANGED <<genVars, batchVars, sideVars, mlVars, compilerVars, dbVars, ingVars, del>>

\* every later request repeats the parameters and sends the cursor it was given
NextPage(store, queryErr, dayAgo) ==
  /\ ~osExit
  /\ sess.pc = "paging"
  /\ GetLogsHandler(sess, sess.limitParam, sess.q, sess.dates, sess.cursor,
                    store, queryErr, dayAgo)
  /\ UNCHANGED <<genVars, batchVars, sideVars, mlVars, compilerVars, dbVars, ingVars, del>>

DeleteLogsHandler(q, store, execErr) ==
  /\ ~osExit
  /\ ~del.done
  /\ osExit' = PingDB(store).fatal
  /\ IF PingDB(store).fatal
     THEN /\ del' = [IdleDel EXCEPT !.done = TRUE, !.store = store]
          /\ UNCHANGED <<dbVars, sess>>
     ELSE IF ~PingDB(store).isAlive
     THEN /\ del' = [IdleDel EXCEPT !.done = TRUE, !.store = store,
                                    !.resp = SendResponse(500, FALSE, MsgDBDown)]
          /\ UNCHANGED <<dbVars, sess>>
     ELSE IF execErr
     THEN /\ del' = [IdleDel EXCEPT !.done = TRUE, !.execErr = TRUE,
                                    !.resp = SendResponse(500, FALSE, MsgDeleteFailed)]
          /\ UNCHANGED <<dbVars, sess>>
     ELSE \E order \in RangeOrders(GenerateFiltersMap(q)) :
            LET query == GenerateDeleteQuery(order)
                gone == Matching(query)
                rowsAffected == Cardinality(gone)
            IN /\ table' = Remaining(table, gone)
               /\ del' = [done |-> TRUE, store |-> store, execErr |-> FALSE,
                          q |-> q, query |-> query,
                          rowsAffected |-> rowsAffected,
                          resp |-> SendResponse(200, TRUE,
                                     IF rowsAffected > 0 THEN MsgDeleted
                                     ELSE MsgNoneDeleted)]
               /\ sess' = [sess EXCEPT !.dirty = @ \/ (sess.pc = "paging" /\ gone # {})]
               /\ UNCHANGED nextId
  /\ UNCHANGED <<genVars, batchVars, sideVars, mlVars, compilerVars, ingVars>>

NextQuery ==
  \/ \E limitParam \in LimitParams : \E q \in FilterParams : \E dates \in DateParams :
       \E store \in StoreStates : \E queryErr \in QueryErrs(store) :
         \E dayAgo \in DayAgos :
           FirstPage(limitParam, q, dates, store, queryErr, dayAgo)
  \/ \E store \in StoreStates : \E queryErr \in QueryErrs(store) :
       \E dayAgo \in DayAgos :
         NextPage(store, queryErr, dayAgo)
  \/ \E q \in FilterParams : \E store \in StoreStates :
       \E execErr \in QueryErrs(store) :
         DeleteLogsHandler(q, store, execErr)

(***************************************************************************)
(* Parser: the query compilers of utils/generateQuery.go, called on their  *)
(* own with the inputs the handlers can hand them.                         *)
(***************************************************************************)
UnknownKey == "sort"

\* query strings: two of the filter keys, and a key no handler reads
CompileParams ==
  {[k \in (DOMAIN NoFilterParams) \cup {UnknownKey} |->
      IF k = "remote_addr" THEN a
      ELSE IF k = "status" THEN st
      ELSE IF k = UnknownKey THEN u ELSE ""] :
     a \in {"", "10.0.0.1", "' OR 1=1 --"}, st \in {"", "200", "404", "abc"},
     u \in {"", "id; DROP TABLE logs"}}

CompileDates ==
  {NoDateFilter, [Start_time |-> 1, End_time |-> -1], [Start_time |-> 0, End_time |-> -1],
   [Start_time |-> -1, End_time |-> 2], [Start_time |-> 1, End_time |-> 2]}

CompilePaging == {[Limit |-> l, Cursor |-> c] : l \in {1, DefaultLimit}, c \in DayAgos}

CompileLogs == {ParseLog(l) : l \in Lines}

NotCompiled ==
  [fn |-> "none", q |-> NoFilterParams, order |-> <<>>,
   paginationFilter |-> [Limit |-> DefaultLimit, Cursor |-> 0],
   dateFilter |-> NoDateFilter, logs |-> <<>>, query |-> GenerateDeleteQuery(<<>>)]

\* one call of a compiler on the filter map of q, ranged over in order
Compile(fn, q, order, paginationFilter, dateFilter, logs) ==
  [fn |-> fn, q |-> q, order |-> order, paginationFilter |-> paginationFilter,
   dateFilter |-> dateFilter, logs |-> logs,
   query |-> CASE fn = "GenerateFilteredGetQuery" ->
                    GenerateFilteredGetQuery(order, paginationFilter, dateFilter)
               [] fn = "GenerateFilteredCountQuery" -> GenerateFilteredCountQuery(order)
               [] fn = "GenerateDeleteQuery" -> GenerateDeleteQuery(order)
               [] fn = "GenerateAddQuery" -> GenerateAddQuery(logs)]

CompileGet(q, order, paginationFilter, dateFilter) ==
  /\ compiled' = Compile("GenerateFilteredGetQuery", q, order, paginationFilter,
                         dateFilter, <<>>)
  /\ UNCHANGED <<genVars, batchVars, sideVars, mlVars, dbVars, ingVars, apiVars, procVars>>

CompileCount(q, order) ==
  /\ compiled' = Compile("GenerateFilteredCountQuery", q, order,
                         NotCompiled.paginationFilter, NoDateFilter, <<>>)
  /\ UNCHANGED <<genVars, batchVars, sideVars, mlVars, dbVars, ingVars, apiVars, procVars>>

CompileDelete(q, order) ==
  /\ compiled' = Compile("GenerateDeleteQuery", q, order,
                         NotCompiled.paginationFilter, NoDateFilter, <<>>)
  /\ UNCHANGED <<genVars, batchVars, sideVars, mlVars, dbVars, ingVars, apiVars, procVars>>

CompileAdd(logs) ==
  /\ compiled' = Compile("GenerateAddQuery", NoFilterParams, <<>>,
                         NotCompiled.paginationFilter, NoDateFilter, logs)
  /\ UNCHANGED <<genVars, batchVars, sideVars, mlVars, dbVars, ingVars, apiVars, procVars>>

NextCompile ==
  \/ \E q \in CompileParams : \E order \in RangeOrders(GenerateFiltersMap(q)) :
       \E paginationFilter \in CompilePaging : \E dateFilter \in CompileDates :
         CompileGet(q, order, paginationFilter, dateFilter)
  \/ \E q \in CompileParams : \E order \in RangeOrders(GenerateFiltersMap(q)) :
       CompileCount(q, order)
  \/ \E q \in CompileParams : \E order \in RangeOrders(GenerateFiltersMap(q)) :
       CompileDelete(q, order)
  \/ \E logs \in SeqsUpTo(CompileLogs, MaxLines) : CompileAdd(logs)

(***************************************************************************)
(* Generator: the batching of one worker's loop (generator.go 105-148),    *)
(* with the size of every line kept.                                       *)
(***************************************************************************)
\* the largest number of lines the loop of the model produces
MaxBatchLogs == 101
\* len() of a line long enough for the byte bound to matter
BigLogSize == 4 * 1024 * 1024
\* logSize := len(logs[logIndex])
LogSizes == {LogSize, BigLogSize}

\* batch := []string{}; totalBatchSize := 0
EmptyBatch == [lines |-> 0, totalBatchSize |-> 0]

\* a loop body that sends the batch only once it holds more than 100 lines
AppendLineLate(b, logSize) ==
  LET early == b.totalBatchSize + logSize > maxBatchSizeBytes
      kept == IF early THEN EmptyBatch ELSE b
      held == [lines |-> kept.lines + 1,
               totalBatchSize |-> kept.totalBatchSize + logSize]
      late == held.lines > BatchMaxLines
  IN [batch |-> IF late THEN EmptyBatch ELSE held,
      handed |-> (IF early THEN <<b>> ELSE <<>>) \o (IF late THEN <<held>> ELSE <<>>)]

\* the loop body after the line was generated: the batch it leaves and the
\* batches it hands to go SendLogToProcessor, in order
AppendLine(b, logSize) ==
  LET early == b.totalBatchSize + logSize > maxBatchSizeBytes
      kept == IF early THEN EmptyBatch ELSE b
      held == [lines |-> kept.lines + 1,
               totalBatchSize |-> kept.totalBatchSize + logSize]
      late == held.lines >= BatchMaxLines
  IN [batch |-> IF late THEN EmptyBatch ELSE held,
      handed |-> (IF early THEN <<b>> ELSE <<>>) \o (IF late THEN <<held>> ELSE <<>>)]

\* bat: the worker's position, its loop index, its batch, and the batches its
\* last step handed to the shipper
IdleBat == [pc |-> "idle", logIndex |-> 0, batch |-> EmptyBatch, handed |-> <<>>]

BatchIdle == bat = IdleBat

\* case <-logTicker.C: one line of size logSize is generated and batched
BatchLine(logSize) ==
  /\ bat.pc = "loop"
  /\ bat.logIndex < MaxBatchLogs
  /\ LET a == AppendLine(bat.batch, logSize) IN
       bat' = [bat EXCEPT !.logIndex = @ + 1, !.batch = a.batch, !.handed = a.handed]
  /\ UNCHANGED <<genVars, parserVars>>

\* logIndex has reached endIndex: if len(batch) > 0 the rest is handed over
BatchRest ==
  /\ bat.pc = "loop"
  /\ bat' = [bat EXCEPT !.pc = "ret",
                        !.handed = IF bat.batch.lines > 0 THEN <<bat.batch>> ELSE <<>>]
  /\ UNCHANGED <<genVars, parserVars>>

\* case <-ctx.Done(): return, the batch is dropped
BatchCancel ==
  /\ bat.pc = "loop"
  /\ bat' = [bat EXCEPT !.pc = "cancelled", !.handed = <<>>]
  /\ UNCHANGED <<genVars, parserVars>>

NextBatch ==
  \/ \E logSize \in LogSizes : BatchLine(logSize)
  \/ BatchRest
  \/ BatchCancel

(***************************************************************************)
(* Parser: the ML service behind GET /ml/insights.                         *)
(***************************************************************************)
\* the number of GET /ml/insights requests of a behaviour
MaxAnalyses == 2
\* the number of rows fetchRecentLogs returns at most
MaxFetched == 2

IPs == {"10.0.0.1", "10.0.0.2"}
LogStatuses == {200, 500}
\* the rows of the last 24 hours, as fetchRecentLogs returns them
FetchedLogs == SeqsUpTo([RemoteAddr : IPs, Status : LogStatuses], MaxFetched)

MsgInsightsFailed == "Failed to generate insights"
MsgInsightsOK == "ML insights generated successfully"

\* make(map[string]*IPBehavior): no address has an entry; an entry is made
\* by the update that counts its first request, so RequestCount 0 is no entry
NewSuspiciousIPs == [ip \in IPs |-> [RequestCount |-> 0, ErrorCount |-> 0]]

\* updateIPBehavior: the counters the threat scorer reads
updateIPBehavior(suspiciousIPs, log) ==
  [suspiciousIPs EXCEPT
     ![log.RemoteAddr] = [RequestCount |-> @.RequestCount + 1,
                          ErrorCount |-> @.ErrorCount
                                           + (IF log.Status >= 400 THEN 1 ELSE 0)]]

\* AnalyzeLogs: for _, log := range logs { sa.updateIPBehavior(log) }
RECURSIVE AnalyzeLogs(_, _)
AnalyzeLogs(suspiciousIPs, logs) ==
  IF logs = <<>> THEN suspiciousIPs
  ELSE AnalyzeLogs(updateIPBehavior(suspiciousIPs, Head(logs)), Tail(logs))

\* ml: the process before and after InitializeMLService, mls.db # nil, the
\* map of the one SecurityAnalyzer NewMLService made, and the last request
IdleML ==
  [pc |-> "boot", db |-> FALSE, suspiciousIPs |-> NewSuspiciousIPs,
   n |-> 0, logs |-> <<>>, resp |-> NoResponse]

\* InitializeMLService at start-up: mlService = ml.NewMLService(), then
\* Initialize; its error is logged and the server starts without a database
InitializeMLService(store) ==
  /\ ~osExit
  /\ ml.pc = "boot"
  /\ LET ping == PingDB(store) IN
     IF ping.fatal
     THEN osExit' = TRUE /\ ml' = ml
     ELSE /\ ml' = [ml EXCEPT !.pc = "serving", !.db = ping.isAlive]
          /\ osExit' = osExit
  /\ UNCHANGED <<genVars, batchVars, sideVars, dbVars, ingVars, apiVars, compilerVars>>

\* GetMLInsightsHandler with GenerateInsights: logs are the rows fetched,
\* queryErr the failure of mls.db.Query
GetMLInsightsHandler(logs, queryErr) ==
  /\ ~osExit
  /\ ml.pc = "serving"
  /\ ml.n < MaxAnalyses
  /\ IF ~ml.db \/ queryErr
     THEN ml' = [ml EXCEPT !.n = @ + 1, !.logs = <<>>,
                           !.resp = SendResponse(500, FALSE, MsgInsightsFailed)]
     ELSE ml' = [ml EXCEPT !.n = @ + 1, !.logs = logs,
                           !.suspiciousIPs = AnalyzeLogs(@, logs),
                           !.resp = SendResponse(200, TRUE, MsgInsightsOK)]
  /\ UNCHANGED <<genVars, batchVars, sideVars, dbVars, ingVars, apiVars, procVars, compilerVars>>

NextML ==
  \/ \E store \in StoreStates : InitializeMLService(store)
  \/ \E logs \in FetchedLogs : \E queryErr \in BOOLEAN :
       GetMLInsightsHandler(logs, queryErr)

(***************************************************************************)
(* Parser: GET /logs paging over rows whose time_local has a fraction of a *)
(* second (time.Parse accepts one, the TIMESTAMP column keeps it).         *)
(***************************************************************************)
\* instants are counted in ticks, TicksPerSecond of them to a second
TicksPerSecond == 2
\* the latest instant of a row
MaxInstant == 5
\* the number of requests of a paging session
MaxPageRequests == 3
PageLimits == {1, 2}

\* t.Format(time.RFC3339), read back by time.Parse: the text has whole
\* seconds, the fraction of t is not written
FormatInstant(t) == t - (t % TicksPerSecond)

\* a nil cursor
NoCursor == -1

\* the cursors a client may send with its first request
FirstCursors == {FormatInstant(t) : t \in 0..MaxInstant}

\* pg: the time_local of the stored rows, the limit of the session, the
\* cursor the last request used and the next_cursor it was answered
IdlePg ==
  [pc |-> "idle", rows |-> {}, limit |-> 1, sent |-> NoCursor, next |-> NoCursor,
   n |-> 0]

\* GetLogsHandler for the cursor and the limit alone: the statement selects
\* time_local > cursor LIMIT limit without ORDER BY, the store answers with
\* any limit-many of these rows, last is the row the loop over rows.Next()
\* saw last, and next_cursor is its formatted time if the page is full
GetLogsPage(limit, cursor) ==
  LET matching == {r \in pg.rows : r > cursor}
      size == IF limit < Cardinality(matching) THEN limit ELSE Cardinality(matching)
  IN \E page \in {p \in SUBSET matching : Cardinality(p) = size} :
       IF page = {}
       THEN pg' = [pg EXCEPT !.pc = "end", !.limit = limit, !.sent = cursor,
                             !.next = NoCursor, !.n = @ + 1]
       ELSE \E last \in page :
              LET nextCursor == IF size = limit THEN FormatInstant(last) ELSE NoCursor
              IN pg' = [pg EXCEPT !.pc = IF nextCursor = NoCursor THEN "end" ELSE "paging",
                                  !.limit = limit, !.sent = cursor,
                                  !.next = nextCursor, !.n = @ + 1]

\* the first request of a session: the client's cursor, formatted as the
\* statement's argument
FirstInstantPage(limit, cursor) ==
  /\ pg.pc = "idle"
  /\ GetLogsPage(limit, cursor)
  /\ UNCHANGED <<genVars, batchVars, storeVars, ana, idx>>

\* a later request sends the next_cursor it was given
NextInstantPage ==
  /\ pg.pc = "paging"
  /\ pg.n < MaxPageRequests
  /\ GetLogsPage(pg.limit, pg.next)
  /\ UNCHANGED <<genVars, batchVars, storeVars, ana, idx>>

NextPaging ==
  \/ \E limit \in PageLimits : \E cursor \in FirstCursors : FirstInstantPage(limit, cursor)
  \/ NextInstantPage

(***************************************************************************)
(* Parser: the analytic functions of the ml package, one call at a time.   *)
(***************************************************************************)
\* ana: the function called last, its arguments and what it returned
IdleAna == [fn |-> "none", arg |-> <<>>, out |-> <<>>]

\* the number of threats handed to one consolidation
MaxThreats == 3
\* the latest time_local of a threat
MaxSeen == 2
ThreatTypes == {"SQL Injection", "Brute Force"}
\* confidences in tenths: 0.7 of detectAnomalousUserAgents, 0.8 of
\* detectAttackPatterns
Confidences == {7, 8}

\* a threat as its detector builds it: RequestCount 1, LastSeen the
\* time_local of the log
Threats ==
  [ThreatType : ThreatTypes, IPAddress : IPs, Confidence : Confidences,
   LastSeen : 1..MaxSeen, RequestCount : {1}]

\* key := threat.IPAddress + "_" + threat.ThreatType
ThreatKey(threat) == <<threat.IPAddress, threat.ThreatType>>

\* the variable `threat` of the i-th iteration of `for _, threat := range
\* threats`: one variable per iteration where the language version gives
\* each iteration its own, one variable for the whole loop otherwise
LoopVar(i, perIteration) == IF perIteration THEN i ELSE 0

\* the i-th iteration of the loop of consolidateThreats over the map
\* consolidated (key to pointer) and the variables the pointers refer to
ConsolidateStep(st, threats, i, perIteration) ==
  LET v == LoopVar(i, perIteration)
      assigned == [st.cells EXCEPT ![v] = threats[i]]
      threat == assigned[v]
      key == ThreatKey(threat)
  IN IF key \in DOMAIN st.consolidated
     THEN LET existing == st.consolidated[key]
              counted == [assigned EXCEPT ![existing].RequestCount = @ + 1]
              seen == [counted EXCEPT ![existing].LastSeen = counted[v].LastSeen]
              conf == IF seen[v].Confidence > seen[existing].Confidence
                      THEN [seen EXCEPT ![existing].Confidence = seen[v].Confidence]
                      ELSE seen
          IN [st EXCEPT !.cells = conf]
     ELSE [consolidated |-> (key :> v) @@ st.consolidated, cells |-> assigned]

RECURSIVE ConsolidateLoop(_, _, _, _)
ConsolidateLoop(st, threats, i, perIteration) ==
  IF i > Len(threats) THEN st
  ELSE ConsolidateLoop(ConsolidateStep(st, threats, i, perIteration), threats, i + 1,
                       perIteration)

\* consolidateThreats: the threats the pointers of the map refer to when
\* the loop has ended, by key
consolidateThreats(threats, perIteration) ==
  LET blank == [ThreatType |-> "", IPAddress |-> "", Confidence |-> 0, LastSeen |-> 0,
                RequestCount |-> 0]
      st == ConsolidateLoop([consolidated |-> <<>>,
                             cells |-> [v \in 0..Len(threats) |-> blank]],
                            threats, 1, perIteration)
  IN [key \in DOMAIN st.consolidated |-> st.cells[st.consolidated[key]]]

ConsolidateThreats(threats, perIteration) ==
  /\ ana.fn = "none"
  /\ ana' = [fn |-> "consolidateThreats",
             arg |-> [threats |-> threats, perIteration |-> perIteration],
             out |-> consolidateThreats(threats, perIteration)]
  /\ UNCHANGED <<genVars, batchVars, storeVars, pg, idx>>

\* time_local and time.Now() in whole minutes; the latest time_local
MaxMinute == 2
Minutes == 0..MaxMinute
\* how many logs of one IP carry one time_local
RequestCounts == {0, 9, 101}
\* if len(requests) < 10 { continue }
RateLimitMinRequests == 10
\* if recentRequests > 100
RateLimitThreshold == 100

\* the analysed logs, as the number of logs by IP and time_local
RequestLogs == [IPs -> [Minutes -> RequestCounts]]

RECURSIVE SumOver(_, _)
SumOver(f, S) ==
  IF S = {} THEN 0
  ELSE LET x == CHOOSE y \in S : TRUE IN f[x] + SumOver(f, S \ {x})

\* detectRateLimitViolations at the time now: an IP with fewer than 10
\* requests is skipped, recentRequests counts the requests with
\* now.Sub(reqTime) <= time.Minute, and more than 100 of them are reported
detectRateLimitViolations(logs, now) ==
  LET requests(ip) == SumOver(logs[ip], Minutes)
      recentRequests(ip) == SumOver(logs[ip], {t \in Minutes : now - t <= 1})
  IN {[ThreatType |-> "Rate Limit Violation", IPAddress |-> ip, Severity |-> "high",
       Confidence |-> 9, RequestCount |-> requests(ip)] :
        ip \in {i \in IPs : /\ requests(i) >= RateLimitMinRequests
                            /\ recentRequests(i) > RateLimitThreshold}}

DetectRateLimitViolations(logs, now) ==
  /\ ana.fn = "none"
  /\ ana' = [fn |-> "detectRateLimitViolations", arg |-> [logs |-> logs, now |-> now],
             out |-> detectRateLimitViolations(logs, now)]
  /\ UNCHANGED <<genVars, batchVars, storeVars, pg, idx>>

\* the users of the logs handed to the clustering
ClusterIPs == IPs \cup {"10.0.0.3"}
\* the most logs of one user
MaxUserLogs == 3
\* config.ClusterCount of NewMLService
ClusterCount == 3
\* maxIterations of kMeansClustering
maxIterations == 100
\* rand.Float64() is a multiple of 1/RandSteps
RandSteps == 2

\* the analysed logs, as the number of logs of each user; every log has
\* body_bytes_sent 0 and a status below 400
UserLogs == [ClusterIPs -> 1..MaxUserLogs]

\* what the generator yields after rand.Seed(seed): firstIdx for
\* rand.Intn(3), and r[i] / RandSteps for the i-th rand.Float64()
Seeds == [firstIdx : 0..2, r : [1..(ClusterCount - 1) -> 0..(RandSteps - 1)]]

\* extractUserProfiles over these logs: RequestRate and UniquePages count
\* the logs, AvgBytes and ErrorRate are 0, SessionTime is RequestRate / 10
\* (kept in tenths); the profiles are appended in the order of a range over
\* the map userStats
extractUserProfiles(logs, order) ==
  [i \in 1..Len(order) |->
     [IPAddress |-> order[i], RequestRate |-> logs[order[i]], AvgBytes |-> 0,
      ErrorRate |-> 0, UniquePages |-> logs[order[i]], SessionTime |-> logs[order[i]]]]

\* a ClusterCenter is its five features in units of 1/q, q chosen so that
\* every value the algorithm computes over these profiles is a whole number
ClusterScale(profiles) ==
  LET rates == {profiles[i].RequestRate : i \in 1..Len(profiles)}
      hi == CHOOSE m \in rates : \A x \in rates : x <= m
      lo == CHOOSE m \in rates : \A x \in rates : m <= x
  IN 600 * (IF hi = lo THEN 1 ELSE hi - lo)

Features == 1..5

profileToCenter(profile, q) ==
  <<profile.RequestRate * q, profile.AvgBytes * q, profile.ErrorRate * q,
    profile.UniquePages * q, (profile.SessionTime * q) \div 10>>

\* calculateDistance is the root of this sum; its results are only compared
calculateDistanceSquared(p1, p2) ==
  LET sq(f) == (p1[f] - p2[f]) * (p1[f] - p2[f])
  IN sq(1) + sq(2) + sq(3) + sq(4) + sq(5)

normalize(value, min, max, q) ==
  IF max = min THEN 0 ELSE ((value - min) * q) \div (max - min)

normalizeProfiles(profiles, q) ==
  LET center(i) == profileToCenter(profiles[i], q)
      vals(f) == {center(i)[f] : i \in 1..Len(profiles)}
      minVals(f) == CHOOSE m \in vals(f) : \A x \in vals(f) : m <= x
      maxVals(f) == CHOOSE m \in vals(f) : \A x \in vals(f) : x <= m
  IN [i \in 1..Len(profiles) |->
        [f \in Features |-> normalize(center(i)[f], minVals(f), maxVals(f), q)]]

\* initializeCenters from the second center on: distances[j] is the square
\* of the distance to the nearest center chosen so far, and the first j
\* whose cumulative distance reaches r is taken
\* distances[j] of initializeCenters: the square of the distance of
\* profile j to the nearest of the centers chosen so far
CenterDistances(centers, profiles, q) ==
  [j \in 1..Len(profiles) |->
     LET ds == {calculateDistanceSquared(profileToCenter(profiles[j], q), centers[l]) :
                  l \in 1..Len(centers)}
     IN CHOOSE m \in ds : \A x \in ds : m <= x]

\* the first j whose cumulative distance reaches r = rand.Float64() * totalDistance
WeightedChoice(distances, r) ==
  LET n == Len(distances)
      totalDistance == SumOver(distances, 1..n)
      hit == {j \in 1..n : RandSteps * SumOver(distances, 1..j) >= r * totalDistance}
  IN CHOOSE j \in hit : \A x \in hit : j <= x

\* initializeCenters from the second center on
RECURSIVE ChooseCenters(_, _, _, _, _)
ChooseCenters(centers, profiles, k, seed, q) ==
  IF Len(centers) >= k THEN centers
  ELSE CHOOSE all \in
         {ChooseCenters(Append(centers, profileToCenter(profiles[next], q)),
                        profiles, k, seed, q) :
            next \in {WeightedChoice(distances, seed.r[Len(centers)]) :
                        distances \in {CenterDistances(centers, profiles, q)}}} : TRUE

initializeCenters(profiles, k, seed, q) ==
  CHOOSE all \in
    {ChooseCenters(first, profiles, k, seed, q) :
       first \in {<<profileToCenter(profiles[seed.firstIdx + 1], q)>>}} : TRUE

\* the index, from 0, of the first nearest center of each profile
assignToClusters(profiles, centers) ==
  [i \in 1..Len(profiles) |->
     LET dist(j) == calculateDistanceSquared(profiles[i], centers[j])
         nearest == {j \in 1..Len(centers) :
                       \A l \in 1..Len(centers) : dist(j) <= dist(l)}
     IN (CHOOSE j \in nearest : \A x \in nearest : j <= x) - 1]

\* the mean of the profiles of each cluster, zero for an empty cluster
updateCenters(profiles, assignments, k) ==
  [c \in 1..k |->
     LET members == {i \in 1..Len(profiles) : assignments[i] = c - 1}
     IN [f \in Features |->
           IF members = {} THEN 0
           ELSE SumOver([i \in 1..Len(profiles) |-> profiles[i][f]], members)
                  \div Cardinality(members)]]

\* the loop of kMeansClustering from iteration on; hasConverged holds of
\* equal assignments only
RECURSIVE KMeansLoop(_, _, _, _, _)
KMeansLoop(assignments, centers, normalizedProfiles, k, iteration) ==
  IF iteration >= maxIterations THEN assignments
  ELSE CHOOSE final \in
         {IF iteration > 0 /\ newAssignments = assignments THEN assignments
          ELSE CHOOSE a \in
                 {KMeansLoop(newAssignments, newCenters, normalizedProfiles, k,
                             iteration + 1) :
                    newCenters \in {updateCenters(normalizedProfiles, newAssignments, k)}} :
                 TRUE :
            newAssignments \in {assignToClusters(normalizedProfiles, centers)}} : TRUE

kMeansClustering(profiles, k0, seed) ==
  LET k == IF Len(profiles) < k0 THEN Len(profiles) ELSE k0
  IN CHOOSE assignments \in
       {KMeansLoop(<<>>, initializeCenters(profiles, k, seed, q),
                   normalizeProfiles(profiles, q), k, 0) :
          q \in {ClusterScale(profiles)}} : TRUE

\* ClusterUsers and formatClusterResults: the ClusterID of each user
ClusterUsers(logs, order, seed) ==
  CHOOSE results \in
    {IF Len(profiles) < 3 THEN <<>>
     ELSE CHOOSE byUser \in
            {[ip \in ClusterIPs |->
                assignments[CHOOSE i \in 1..Len(profiles) : profiles[i].IPAddress = ip]] :
               assignments \in {kMeansClustering(profiles, ClusterCount, seed)}} : TRUE :
       profiles \in {extractUserProfiles(logs, order)}} : TRUE

\* one call of ClusterUsers: initializeCenters seeds the generator itself,
\* with the clock, and the range over userStats visits the users in any order
ClusterUsersCall(logs, order, seed) ==
  /\ ana.fn = "none"
  /\ ana' = [fn |-> "ClusterUsers", arg |-> [logs |-> logs, seed |-> seed],
             out |-> ClusterUsers(logs, order, seed)]
  /\ UNCHANGED <<genVars, batchVars, storeVars, pg, idx>>

NextAnalytics ==
  \/ \E logs \in UserLogs : \E order \in RangeOrders(ClusterIPs) : \E seed \in Seeds :
       ClusterUsersCall(logs, order, seed)
  \/ \E threats \in SeqsUpTo(Threats, MaxThreats) : \E perIteration \in BOOLEAN :
       ConsolidateThreats(threats, perIteration)
  \/ \E logs \in RequestLogs : \E now \in 0..(MaxMinute + 2) :
       DetectRateLimitViolations(logs, now)

(***************************************************************************)
(* Parser: the storage adapter at start-up (InitDB) over the store's       *)
(* schema.                                                                 *)
(***************************************************************************)
\* the number of starts of the process over one store
MaxStartups == 4

\* idx: whether the process is up, the schema of the store (the logs table,
\* the number of indexes named idx_time_local), the statements executed,
\* what indexExists returned and the last line logged
IdleIdx ==
  [pc |-> "down", table |-> FALSE, indexes |-> 0, n |-> 0, execs |-> 0,
   failed |-> FALSE, checked |-> "none", logged |-> ""]

\* the schemas a store may have when the process first starts: nothing, the
\* table alone, or the table with the index an operator created
Schemas == {<<FALSE, 0>>, <<TRUE, 0>>, <<TRUE, 1>>}

\* indexExists: SELECT indexname FROM pg_indexes; false on sql.ErrNoRows,
\* true otherwise, a failed query included
indexExists(indexes, queryErr) ==
  IF ~queryErr /\ indexes = 0 THEN FALSE ELSE TRUE

\* createLogsTableIfNotExist: on sql.ErrNoRows the CreateTableQuery is
\* executed (CREATE TABLE IF NOT EXISTS logs (...), no index in it), then
\* indexExists is called and its result dropped; no statement creates an
\* index
createLogsTableIfNotExist(tableQueryErr, execErr, indexQueryErr) ==
  IF tableQueryErr
  THEN idx' = [idx EXCEPT !.pc = "up", !.n = @ + 1, !.failed = TRUE, !.checked = "none",
                          !.logged = "Error checking if logs table exists"]
  ELSE IF ~idx.table
  THEN idx' = [idx EXCEPT !.pc = "up", !.n = @ + 1,
                          !.table = ~execErr,
                          !.execs = @ + 1,
                          !.failed = execErr \/ indexQueryErr,
                          !.checked = IF indexExists(idx.indexes, indexQueryErr)
                                      THEN "true" ELSE "false",
                          !.logged = "Logs table created successfully!"]
  ELSE idx' = [idx EXCEPT !.pc = "up", !.n = @ + 1, !.failed = FALSE, !.checked = "none",
                          !.logged = "Logs table already exists."]

\* InitDB, after the connection is opened
InitDB(tableQueryErr, execErr, indexQueryErr) ==
  /\ idx.pc = "down"
  /\ idx.n < MaxStartups
  /\ createLogsTableIfNotExist(tableQueryErr, execErr, indexQueryErr)
  /\ UNCHANGED <<genVars, batchVars, storeVars, pg, ana>>

\* the process ends; the store keeps its schema
ProcessStops ==
  /\ idx.pc = "up"
  /\ idx' = [idx EXCEPT !.pc = "down"]
  /\ UNCHANGED <<genVars, batchVars, storeVars, pg, ana>>

NextStartup ==
  \/ \E tableQueryErr, execErr, indexQueryErr \in BOOLEAN :
       InitDB(tableQueryErr, execErr, indexQueryErr)
  \/ ProcessStops

SideIdle ==
  /\ pg = IdlePg
  /\ ana = IdleAna
  /\ idx = IdleIdx

GenIdle ==
  /\ RateData = [NumLogs |-> 0, Unit |-> ""]
  /\ ConfigData = [KEY_RATE |-> 0, KEY_UNIT |-> ""]
  /\ cancelFunc = 0
  /\ cancelled = {}
  /\ nextCtx = 1
  /\ req = [r \in Reqs |-> IdleReq]
  /\ task = [r \in Reqs |-> NoTask]
  /\ statusChan = [r \in Reqs |-> <<>>]
  /\ wg = [r \in Reqs |-> 0]
  /\ run = [c \in Ctxs |-> NoRun]
  /\ ship = [r \in Reqs |-> 0]
  /\ stopClean = FALSE

ParserIdle ==
  /\ table = <<>>
  /\ nextId = 1
  /\ ing = IdleIng
  /\ sess = IdleSess
  /\ del = IdleDel
  /\ osExit = FALSE
  /\ compiled = NotCompiled
  /\ ml = IdleML
  /\ SideIdle

\* the Generator service alone
InitGenerator == InitGen /\ ParserIdle /\ BatchIdle

SpecGen == InitGenerator /\ [][NextGen]_vars

\* the task controller alone: start requests and the tasks they spawn, the
\* producer runs not yet scheduled; every context of Ctxs may be taken
InitCtl ==
  /\ \E envRate \in EnvRates, envUnit \in EnvUnits, yamlRead \in BOOLEAN,
        yamlRate \in YamlRates, yamlUnit \in YamlUnits :
       LET c == FirstLoad(envRate, envUnit, yamlRead, yamlRate, yamlUnit) IN
       /\ RateData = c.rate
       /\ ConfigData = c.config
  /\ cancelFunc = 0
  /\ cancelled = {}
  /\ nextCtx = 1
  /\ req = [r \in Reqs |-> IdleReq]
  /\ task = [r \in Reqs |-> NoTask]
  /\ statusChan = [r \in Reqs |-> <<>>]
  /\ wg = [r \in Reqs |-> 0]
  /\ run = [c \in Ctxs |-> NoRun]
  /\ ship = [r \in Reqs |-> 0]
  /\ stopClean = FALSE
  /\ ParserIdle /\ BatchIdle

NextCtl ==
  \/ \E r \in Reqs : LogHandlerValidate(r) /\ UNCHANGED restVars
  \/ \E r \in Reqs : LogHandlerCancelPrev(r) /\ UNCHANGED restVars
  \/ \E r \in Reqs : LogHandlerStatus(r) /\ UNCHANGED restVars
  \/ \E r \in Reqs : LogHandlerTimeout(r) /\ UNCHANGED restVars
  \/ \E t \in Reqs : TaskInstall(t) /\ UNCHANGED restVars
  \/ \E t \in Reqs : TaskSkip(t) /\ UNCHANGED restVars
  \/ \E t \in Reqs : TaskStartRun(t) /\ UNCHANGED restVars
  \/ \E t \in Reqs : TaskTick(t) /\ UNCHANGED restVars
  \/ \E t \in Reqs : TaskRestart(t) /\ UNCHANGED restVars
  \/ \E t \in Reqs : TaskDone(t) /\ UNCHANGED restVars

SpecCtl == InitCtl /\ [][NextCtl]_vars

\* the largest numLogs of a producer run started on its own
MaxRunLogs == 3

\* cancel(): the caller of GenerateLogsConcurrently cancels the run's context
CancelCall ==
  /\ cancelFunc # 0
  /\ cancelFunc \notin cancelled
  /\ cancelled' = Cancel(cancelFunc)
  /\ UNCHANGED <<RateData, ConfigData, cancelFunc, nextCtx, req, task, statusChan,
                 wg, run, ship, stopClean>>

\* one producer run started on its own, as TestGenerateLogsConcurrently does:
\* ctx, cancel := context.WithCancel(...); go GenerateLogsConcurrently(ctx, ...)
InitRun ==
  /\ RateData = [NumLogs |-> 0, Unit |-> ""]
  /\ ConfigData = [KEY_RATE |-> 0, KEY_UNIT |-> ""]
  /\ cancelFunc = 1
  /\ cancelled = {}
  /\ nextCtx = 2
  /\ req = [r \in Reqs |-> IdleReq]
  /\ task = [r \in Reqs |-> NoTask]
  /\ statusChan = [r \in Reqs |-> <<>>]
  /\ wg = [r \in Reqs |-> 0]
  /\ \E numLogs \in 1..MaxRunLogs :
       run = [c \in Ctxs |-> IF c = 1 THEN NewRun(1, numLogs) ELSE NoRun]
  /\ ship = [r \in Reqs |-> 0]
  /\ stopClean = FALSE
  /\ ParserIdle /\ BatchIdle

NextRun ==
  \/ CancelCall /\ UNCHANGED restVars
  \/ \E c \in Ctxs : RunSpawn(c) /\ UNCHANGED restVars
  \/ \E c \in Ctxs : RunReturn(c) /\ UNCHANGED restVars
  \/ \E c \in Ctxs : \E w \in DOMAIN run[c].wk : WorkerTick(c, w) /\ UNCHANGED restVars
  \/ \E c \in Ctxs : \E w \in DOMAIN run[c].wk : WorkerCancel(c, w) /\ UNCHANGED restVars
  \/ \E c \in Ctxs : \E w \in DOMAIN run[c].wk : WorkerFinish(c, w) /\ UNCHANGED restVars
  \/ \E t \in Reqs : SendLogToProcessor(t) /\ UNCHANGED restVars

\* a runnable goroutine is scheduled and the ticker keeps firing: no step of
\* the run or of a worker stays enabled forever without being taken
FairRun ==
  /\ \A c \in Ctxs : WF_vars(RunSpawn(c) /\ UNCHANGED restVars)
  /\ \A c \in Ctxs : WF_vars(RunReturn(c) /\ UNCHANGED restVars)
  /\ \A c \in Ctxs : \A w \in 0..(2 * NumCPU - 1) :
       WF_vars(w \in DOMAIN run[c].wk
                /\ (WorkerTick(c, w) \/ WorkerCancel(c, w) \/ WorkerFinish(c, w))
                /\ UNCHANGED restVars)

SpecRun == InitRun /\ [][NextRun]_vars /\ FairRun

\* the Parser's ingest endpoint alone, starting from an empty table
InitIngest == GenIdle /\ ParserIdle /\ BatchIdle

\* the query compilers alone
InitCompile == GenIdle /\ ParserIdle /\ BatchIdle

SpecCompile == InitCompile /\ [][NextCompile]_vars

SpecIngest == InitIngest /\ [][NextIngest]_vars

\* the table after the ingest of a sequence of lines into an empty table
Ingested(lines) ==
  LET query == GenerateAddQuery([i \in 1..Len(lines) |-> ParseLog(lines[i])])
  IN ExecInsert(query, query.values, 1).rows

\* the Parser's query endpoints alone, over a table some ingest has filled
InitQuery ==
  /\ GenIdle
  /\ \E lines \in SeqsUpTo(Lines, MaxRows) :
       /\ table = Ingested(lines)
       /\ nextId = Len(lines) + 1
  /\ ing = IdleIng
  /\ sess = IdleSess
  /\ del = IdleDel
  /\ osExit = FALSE
  /\ compiled = NotCompiled
  /\ ml = IdleML
  /\ SideIdle
  /\ BatchIdle

SpecQuery == InitQuery /\ [][NextQuery]_vars

\* one worker's batching loop alone, from its first line on
InitBatch ==
  /\ GenIdle
  /\ ParserIdle
  /\ bat = [IdleBat EXCEPT !.pc = "loop"]

SpecBatch == InitBatch /\ [][NextBatch]_vars

\* the ML service alone, from the start of the process
InitML == GenIdle /\ ParserIdle /\ BatchIdle

SpecML == InitML /\ [][NextML]_vars

\* a paging session alone, over a stable table
InitPaging ==
  /\ GenIdle
  /\ BatchIdle
  /\ table = <<>> /\ nextId = 1 /\ ing = IdleIng /\ sess = IdleSess /\ del = IdleDel
  /\ osExit = FALSE /\ compiled = NotCompiled /\ ml = IdleML
  /\ \E rows \in SUBSET (1..MaxInstant) : pg = [IdlePg EXCEPT !.rows = rows]
  /\ ana = IdleAna
  /\ idx = IdleIdx

SpecPaging == InitPaging /\ [][NextPaging]_vars

\* the starts of the process alone, over each schema
InitStartup ==
  /\ GenIdle
  /\ BatchIdle
  /\ table = <<>> /\ nextId = 1 /\ ing = IdleIng /\ sess = IdleSess /\ del = IdleDel
  /\ osExit = FALSE /\ compiled = NotCompiled /\ ml = IdleML
  /\ pg = IdlePg
  /\ ana = IdleAna
  /\ \E schema \in Schemas : idx = [IdleIdx EXCEPT !.table = schema[1], !.indexes = schema[2]]

SpecStartup == InitStartup /\ [][NextStartup]_vars

\* the analytic functions alone
InitAnalytics == GenIdle /\ ParserIdle /\ BatchIdle

SpecAnalytics == InitAnalytics /\ [][NextAnalytics]_vars

(***************************************************************************)
(* Claims about the Generator's task controller.                           *)
(***************************************************************************)
ActiveTasks == {t \in Reqs : TaskActive(t)}

\* C1: at most one Generator task is active at any instant, for every
\* interleaving of start requests (a start cancels and replaces the running task).
C1_AtMostOneActiveTask == Cardinality(ActiveTasks) <= 1

\* a producer run some worker of which is still in its loop
RunExecuting(c) ==
  run[c].pc = "wait" /\ \E w \in DOMAIN run[c].wk : run[c].wk[w].pc = "loop"

\* C2: within one task two producer runs never execute at the same time: the
\* next run is spawned only after the previous one has observed its cancellation.
C2_NoOverlappingRuns ==
  \A c1 \in Ctxs, c2 \in Ctxs :
    (c1 # c2 /\ run[c1].task = run[c2].task)
      => ~(RunExecuting(c1) /\ RunExecuting(c2))

\* C7: after POST /logs/stop (with no start in flight or after it) the running
\* task is cancelled and GET /logs/status reports active=false.
C7_StopDeactivates == stopClean => ~StatusHandler

\* the request passed LogHandler's validation: its task was spawned
Validated(r) == req[r].pc # "idle" /\ Validate(req[r].method, req[r].body).pc = "cancel"

\* the messages the producer of request r can have put on its status channel
PublishedBy(r) ==
  (IF task[r].pc = "done" /\ task[r].rate <= 0 THEN {MsgSkip} ELSE {})
  \cup (IF \E c \in Ctxs : run[c].task = r /\ run[c].generatedLogs > 0
        THEN {StatusMessage(o) : o \in PostOutcomes} ELSE {})

C9_ValidStartEnvelope ==
  \A r \in Reqs :
    (/\ req[r].pc = "done" /\ req[r].method = "POST"
     /\ req[r].body.decoded /\ req[r].body.NumLogs > 0 /\ ValidUnit(req[r].body.Unit)
     /\ req[r].resp.code # 408)
      => req[r].resp = SendResponse(200, TRUE, MsgInProgress)

\* the rate configured before the request: RateData's, else ConfigData's
DefaultRate == IF RateData.NumLogs > 0 THEN RateData.NumLogs ELSE ConfigData.KEY_RATE

\* the request carries no rate: no body that decodes, or one without num_logs
RateMissing(r) == ~req[r].body.decoded \/ req[r].body.NumLogs = 0

\* C10: a start request whose rate is missing runs with the previously
\* configured default rate; if that is unset or not positive too, it is
\* rejected with HTTP 400.
C10_MissingRateFallsBack ==
  \A r \in Reqs :
    (req[r].pc # "idle" /\ req[r].method = "POST" /\ RateMissing(r))
      => IF DefaultRate > 0
         THEN req[r].resp.code = 400 \/ req[r].rate = DefaultRate
         ELSE req[r].resp.code = 400

(***************************************************************************)
(* Claims about the Parser's ingest and query endpoints.                   *)
(***************************************************************************)
\* the line decodes: it matches the grammar and its timestamp is RFC3339
Decodes(line) == line.form = "match" /\ ~TimeParseRFC3339(line.time).err

Malformed(lines) == Cardinality({i \in 1..Len(lines) : ~Decodes(lines[i])})

\* C3: the answer to a POST /logs with a decodable body reports rows_inserted
\* and rows_dropped with rows_inserted + rows_dropped = len(lines) and
\* rows_dropped = the number of malformed lines; the answer carries one count,
\* the rows inserted, so the rows dropped are the lines it does not count.
C3_InsertedPlusDropped ==
  (ing.pc = "done" /\ ing.resp.code = 200)
    => Len(ing.logstr) - ing.rowsAffected = Malformed(ing.logstr)

\* C4: a line that fails decoding is dropped: the table never holds a row
\* with a zero time or an empty address.
C4_MalformedDropped ==
  \A i \in 1..Len(table) :
    table[i].TimeLocal # ZeroTime /\ table[i].RemoteAddr # ""

\* how often the row with this id was returned to the paging client
Occurrences(id) == Cardinality({k \in 1..Len(sess.returned) : sess.returned[k] = id})

\* C5: with no concurrent writes, following next_cursor from the first page
\* until it is null returns every stored row the first request selects exactly
\* once, rows sharing a time_local included (stated for the sessions in
\* which the store returned every page in (time_local, id) order).
C5_EachRowOnce ==
  (sess.pc = "end" /\ ~sess.dirty /\ sess.keyset)
    => \A i \in Matching(sess.first) : Occurrences(table[i].id) = 1

\* C6: a DELETE /logs without a filter deletes nothing (it is to be rejected
\* with DeleteRequiresFilter, and no DELETE statement is to be emitted).
C6_UnfilteredDeleteRejected ==
  (del.done /\ GenerateFiltersMap(del.q) = {} /\ del.resp.code # 500)
    => del.rowsAffected = 0

(***************************************************************************)
(* Claims about a cancelled producer run.                                  *)
(***************************************************************************)
\* C11: when a producer run is cancelled its workers exit and the lines
\* already accumulated in a pending batch are still flushed to the shipper:
\* no worker has exited with lines left in its batch.
C11_CancelFlushesPending ==
  \A c \in Ctxs : \A w \in DOMAIN run[c].wk :
    run[c].wk[w].pc = "exit" => run[c].wk[w].batch = 0

AllWorkersExited(c) ==
  run[c].pc \in {"wait", "ret"} /\ \A w \in DOMAIN run[c].wk : run[c].wk[w].pc = "exit"

\* C12: after the context of a run is cancelled every worker exits and the
\* wait on the run's WaitGroup returns.
C12_CancelledRunReturns ==
  \A c \in Ctxs :
    (c \in cancelled /\ run[c].pc # "none")
      ~> (AllWorkersExited(c) /\ run[c].pc = "ret")

C12_Witness ==
  /\ 1 \in cancelled
  /\ run[1].pc = "ret"
  /\ AllWorkersExited(1)
  /\ run[1].generatedLogs < run[1].numLogs

(***************************************************************************)
(* Claims about the pages of GET /logs.                                    *)
(***************************************************************************)
\* C13: every page GET /logs returns holds at most limit rows, and its
\* next_cursor is non-null exactly when it holds limit rows
C13_PageWithinLimit ==
  sess.resp.code = 200 =>
    LET data == sess.resp.data
    IN /\ Len(data.logs) = data.count.fetch
       /\ data.count.fetch <= data.paging.limit
       /\ data.paging.next_cursor # NullCursor <=> data.count.fetch = data.paging.limit

\* a full page, which carries a next_cursor
C13_Witness ==
  /\ sess.resp.code = 200
  /\ sess.resp.data.count.fetch = sess.resp.data.paging.limit
  /\ sess.resp.data.paging.next_cursor # NullCursor

\* C14: prev_cursor is the cursor of the first returned row when the request
\* supplied a cursor, and null when the request supplied none
C14_PrevCursorOnlyWithCursor ==
  sess.resp.code = 200 =>
    LET data == sess.resp.data
    IN /\ sess.sent = EmptyText => data.paging.prev_cursor = NullCursor
       /\ (sess.sent # EmptyText /\ data.count.fetch > 0) =>
            data.paging.prev_cursor = FormatTime(data.logs[1].TimeLocal)

(***************************************************************************)
(* Claims about the Parser's error handling.                               *)
(***************************************************************************)
\* C17: POST /logs with an empty JSON array succeeds and reports 0 rows
\* inserted
C17_EmptyArraySucceeds ==
  (/\ ing.pc = "done" /\ ing.method = "POST" /\ ~ing.decodeErr
   /\ ing.logstr = <<>> /\ ing.store = "alive") =>
    /\ ing.resp = SendResponse(200, TRUE, MsgStored)
    /\ ing.rowsAffected = 0

\* C18: a GET /logs that finds the store unreachable is answered 500 with
\* the message "Failed to connect to Database!", and the process keeps running
C18_UnreachableStoreAnswered ==
  (sess.pc # "idle" /\ sess.store # "alive") =>
    /\ sess.resp = SendResponse(500, FALSE, MsgDBDown)
    /\ ~osExit

\* C19: every store error met while serving a request (a failed query,
\* insert or delete) is answered with status 500
C19_StoreErrorsAre500 ==
  /\ sess.queryErr => sess.resp.code = 500
  /\ del.execErr => del.resp.code = 500

\* C20: every response the Parser writes, the 400 of a body that does not
\* decode and the 405 of a wrong method included, is the JSON envelope
\* {status, message, data} with Content-Type application/json
C20_EveryResponseIsEnvelope ==
  ing.resp # NoResponse =>
    /\ ing.resp.contentType = ContentTypeJSON
    /\ {"status", "message", "data"} \subseteq DOMAIN ing.resp

(***************************************************************************)
(* Claims about the query compilers.                                       *)
(***************************************************************************)
\* the $n markers of a statement, in the order they appear in its text
Markers(query) ==
  IF query.verb = "INSERT"
  THEN [n \in 1..(9 * Len(query.placeholders)) |->
          query.placeholders[((n - 1) \div 9) + 1][((n - 1) % 9) + 1]]
  ELSE [i \in 1..Len(query.where) |-> query.where[i].arg]
         \o (IF query.limit # 0 THEN <<query.limit>> ELSE <<>>)

\* the parameter list returned next to the statement
Parameters(query) == IF query.verb = "INSERT" THEN query.values ELSE query.args

\* C15: whatever the filters, date range, cursor and limit, and for an insert
\* of any N records, the statement's $n markers are 1..n in order, n being
\* the number of parameters returned with it (9N for an insert)
C15_MarkersMatchParameters ==
  compiled.fn # "none" =>
    /\ Markers(compiled.query) = [i \in 1..Len(Parameters(compiled.query)) |-> i]
    /\ compiled.fn = "GenerateAddQuery" =>
         Len(Parameters(compiled.query)) = 9 * Len(compiled.logs)

\* an insert of two records, and a SELECT with every optional clause
C15_Witness ==
  \/ compiled.fn = "GenerateAddQuery" /\ Len(compiled.query.values) = 18
  \/ compiled.fn = "GenerateFilteredGetQuery" /\ Len(compiled.query.args) = 6

\* the text of a statement: everything but the parameter list
Text(query) ==
  IF query.verb = "INSERT"
  THEN [verb |-> query.verb, placeholders |-> query.placeholders]
  ELSE [verb |-> query.verb, where |-> query.where, limit |-> query.limit]

\* what of a call is not a user-supplied value: the compiler, the filter keys
\* present (in range order), which dates are present, the number of records
Shape(call) ==
  [fn |-> call.fn,
   keys |-> [i \in 1..Len(call.order) |-> call.order[i][1]],
   start |-> call.dateFilter.Start_time # -1,
   end |-> call.dateFilter.End_time # -1,
   records |-> Len(call.logs)]

AllCompiles ==
  UNION {
    {Compile("GenerateFilteredGetQuery", q, order, paginationFilter, dateFilter, <<>>) :
       order \in RangeOrders(GenerateFiltersMap(q)),
       paginationFilter \in CompilePaging, dateFilter \in CompileDates}
    \cup {Compile(fn, q, order, NotCompiled.paginationFilter, NoDateFilter, <<>>) :
            fn \in {"GenerateFilteredCountQuery", "GenerateDeleteQuery"},
            order \in RangeOrders(GenerateFiltersMap(q))} : q \in CompileParams}
  \cup {Compile("GenerateAddQuery", NoFilterParams, <<>>, NotCompiled.paginationFilter,
                NoDateFilter, logs) : logs \in SeqsUpTo(CompileLogs, MaxLines)}

\* C16: the text of a compiled statement does not depend on the values the
\* user supplied (two calls that differ only in values emit the same text),
\* its column names are filter keys or time_local, and a query key no
\* handler knows changes nothing
C16_TextIndependentOfValues ==
  compiled.fn # "none" =>
    /\ \A other \in AllCompiles :
         Shape(other) = Shape(compiled) => Text(other.query) = Text(compiled.query)
    /\ compiled.query.verb # "INSERT" =>
         \A i \in DOMAIN compiled.query.where :
           compiled.query.where[i].column
             \in StringColumns \cup IntColumns \cup {"time_local"}
    /\ GenerateFiltersMap(compiled.q)
         = GenerateFiltersMap([compiled.q EXCEPT ![UnknownKey] = ""])

\* a SELECT compiled from two filters, one of them hostile, and an unknown key
C16_Witness ==
  /\ compiled.fn = "GenerateFilteredGetQuery"
  /\ compiled.q[UnknownKey] # ""
  /\ compiled.q.remote_addr = "' OR 1=1 --"
  /\ Len(compiled.order) = 2

(***************************************************************************)
(* Claims about the task's restart loop.                                   *)
(***************************************************************************)
\* the controller loop of task t is running
Looping(t) == task[t].pc \in {"loop", "tick"}

C24_RestartCancelsOwnRun ==
  [][\A t \in Reqs :
       (task[t].pc = "tick" /\ task'[t].pc = "loop") => cancelFunc = task[t].cntx]_vars

\* a later start request has run its cancel step and spawned its task
Replaced(t) == \E r \in Reqs : r > t /\ req[r].pc \in {"wait", "done"} /\ task[r].pc # "none"

\* C25: once a replacing start has cancelled a task, the task's loop returns
\* and spawns no further producer run: it takes no new context
C25_NoRunAfterReplaced ==
  [][\A t \in Reqs :
       (Looping(t) /\ task[t].cntx \in cancelled /\ Replaced(t))
         => task'[t].cntx = task[t].cntx]_vars

(***************************************************************************)
(* Claims about the producer run, its WaitGroup and the shipper.           *)
(***************************************************************************)
\* C27: in a producer run of N lines the shared counter never exceeds N,
\* however the ticks are divided among the workers
C27_CounterWithinN ==
  \A c \in Ctxs : run[c].generatedLogs <= run[c].numLogs

\* a run of the largest size whose workers have produced all of its lines
C27_Witness ==
  \E c \in Ctxs :
    /\ run[c].numLogs = MaxRunLogs
    /\ run[c].generatedLogs = run[c].numLogs
    /\ AllWorkersExited(c)

\* every run of task t has spawned its workers and all of them have exited
TaskWorkersExited(t) ==
  \A c \in Ctxs : run[c].task = t => AllWorkersExited(c)

\* C28: every Add on the WaitGroup a task's runs share is matched by a Done:
\* once the workers of the task's runs have exited the counter is zero, so
\* no run waiting on it blocks forever
C28_AddsMatchedByDones ==
  \A c \in Ctxs :
    (run[c].pc = "wait" /\ TaskWorkersExited(run[c].task)) => wg[run[c].task] = 0

\* C29: a shipper is never blocked by the status channel: it can always
\* take its step, whether the channel is full or its request was answered,
\* and the channel never holds more than its capacity
C29_ShipperNeverBlocks ==
  \A t \in Reqs :
    /\ Len(statusChan[t]) <= StatusChanCap
    /\ ship[t] > 0 => ENABLED SendLogToProcessor(t)

\* a shipper about to report while the channel is full and the request that
\* would have received from it has been answered
C29_Witness ==
  \E t \in Reqs :
    /\ ship[t] > 0
    /\ Len(statusChan[t]) = StatusChanCap
    /\ req[t].pc = "done"

(***************************************************************************)
(* Claims about the batches of a worker.                                   *)
(***************************************************************************)
\* C30: every batch handed to the shipper holds at most 100 lines and at
\* most 10 MiB, and the batch a worker holds between two lines has fewer than
\* 100 lines and at most 10 MiB: it is sent as soon as it reaches 100 lines,
\* or before a line that would push it over 10 MiB is added
C30_BatchWithinBounds ==
  /\ \A i \in DOMAIN bat.handed :
       /\ bat.handed[i].lines <= BatchMaxLines
       /\ bat.handed[i].totalBatchSize <= maxBatchSizeBytes
  /\ bat.batch.lines < BatchMaxLines
  /\ bat.batch.totalBatchSize <= maxBatchSizeBytes

\* a batch handed over because it reached 100 lines, two of them long enough
\* that one more long line would have passed the byte bound
C30_Witness ==
  \E i \in DOMAIN bat.handed :
    /\ bat.handed[i].lines = BatchMaxLines
    /\ bat.handed[i].totalBatchSize + BigLogSize > maxBatchSizeBytes

(***************************************************************************)
(* Claims about the ML service.                                            *)
(***************************************************************************)
\* C21: an analysis shares no state with earlier analyses: after a
\* successful GET /ml/insights the per-IP counters the threat scorer reads
\* are those of the rows this request fetched, counted from an empty map
C21_CountersPerAnalysis ==
  (ml.n > 0 /\ ml.resp.code = 200 /\ ml.logs # <<>>)
     => ml.suspiciousIPs = AnalyzeLogs(NewSuspiciousIPs, ml.logs)

\* C22: every answer of GET /ml/insights has status 200
C22_InsightsAlways200 ==
  ml.n > 0 => ml.resp.code = 200

(***************************************************************************)
(* Claims about the ingest pipeline.                                       *)
(***************************************************************************)
\* some goroutine of the pipeline can take a step
PipelineCanStep ==
  \/ \E w \in IngestWorkers : ENABLED ProcessLogWorker(w)
  \/ \E w \in IngestWorkers : ENABLED ProcessLogWorkerSend(w)
  \/ \E w \in IngestWorkers : ENABLED ProcessLogWorkerExit(w)
  \/ ENABLED CloseResults
  \/ ENABLED CollectResult
  \/ ENABLED InsertLogs

\* C26: resultsChan is closed only after every worker has finished; while the
\* handler is in its pipeline some goroutine can always step (no deadlock),
\* the lines in the two channels and the collected ones never exceed the
\* channels' capacity len(logstr), and when the collecting loop has ended
\* every line of the request has been parsed and collected
C26_CloseAfterWorkersNoDeadlock ==
  /\ ing.resultsClosed => ing.exited = IngestWorkers
  /\ (ing.pc = "collect" /\ ~osExit) => PipelineCanStep
  /\ Len(ing.logsChan) + Len(ing.resultsChan) + Len(ing.logEntries) <= Len(ing.logstr)
  /\ (ing.resultsClosed /\ ing.resultsChan = <<>>)
        => Len(ing.logEntries) = Len(ing.logstr)

\* a request of more lines than there are workers has gone through the
\* pipeline and was answered
C26_Witness ==
  /\ ing.pc = "done"
  /\ Len(ing.logstr) > NumCPU
  /\ ing.resultsClosed
  /\ Len(ing.logEntries) = Len(ing.logstr)

(***************************************************************************)
(* Claims about the workers of a producer run and their index ranges.      *)
(***************************************************************************)
\* sizes of a run on both sides of the 1000-line threshold and of the cap
RunSizes == {1, 2, 3, 999, 1000, 1001, 2500, 5000, 9999}

\* the ranges [StartIndex, EndIndex) of the workers of a run of n lines, in
\* the order of the workers: they start at 0, each starts where the one
\* before it ends, and the last ends at n
RangesPartition(n) ==
  LET last == OptimalWorkers(n) - 1 IN
    /\ StartIndex(0, n) = 0
    /\ EndIndex(last, n) = n
    /\ \A w \in 0..last : StartIndex(w, n) <= EndIndex(w, n)
    /\ \A w \in 0..(last - 1) : EndIndex(w, n) = StartIndex(w + 1, n)

\* C31: the workers' index ranges are contiguous, pairwise disjoint and cover
\* exactly 0..N-1, the last range taking the remainder: for the sizes of
\* RunSizes, and for every run of the model, whose workers hold these ranges
\* and stay inside them
C31_RangesPartition ==
  /\ \A n \in RunSizes : RangesPartition(n)
  /\ \A c \in Ctxs :
       run[c].pc \in {"wait", "ret"} =>
         /\ RangesPartition(run[c].numLogs)
         /\ DOMAIN run[c].wk = 0..(OptimalWorkers(run[c].numLogs) - 1)
         /\ \A w \in DOMAIN run[c].wk :
              /\ run[c].wk[w].endIndex = EndIndex(w, run[c].numLogs)
              /\ StartIndex(w, run[c].numLogs) <= run[c].wk[w].logIndex
              /\ run[c].wk[w].logIndex <= run[c].wk[w].endIndex

\* a run of fewer lines than workers has produced all of its lines
C31_Witness ==
  \E c \in Ctxs :
    /\ AllWorkersExited(c)
    /\ run[c].numLogs < Cardinality(DOMAIN run[c].wk)
    /\ run[c].generatedLogs = run[c].numLogs

\* C35: a run of N lines has clamp(max(1, N/1000), 1, 2 * parallelism)
\* workers; a run of at most 1000 lines has one
C35_WorkersClamped ==
  \A c \in Ctxs :
    run[c].pc \in {"wait", "ret"} =>
      LET byLogs == IF run[c].numLogs \div 1000 > 1 THEN run[c].numLogs \div 1000 ELSE 1
          clamped == IF byLogs > 2 * NumCPU THEN 2 * NumCPU ELSE byLogs
      IN Cardinality(DOMAIN run[c].wk) = clamped

\* the number of lines of the request that parse to record x which are in
\* logsChan, in a worker's hands, in resultsChan, or collected
Queued(x) == Cardinality({i \in DOMAIN ing.logsChan : ParseLog(ing.logsChan[i]) = x})
InHand(x) ==
  Cardinality({w \in IngestWorkers :
                 ing.held[w] # <<>> /\ ParseLog(ing.held[w][1]) = x})
Sent(x) == Cardinality({i \in DOMAIN ing.resultsChan : ing.resultsChan[i] = x})
Collected(x) == Cardinality({i \in DOMAIN ing.logEntries : ing.logEntries[i] = x})
Requested(x) == Cardinality({i \in DOMAIN ing.logstr : ParseLog(ing.logstr[i]) = x})

\* C32: every line of the request is at one place of the pipeline at a time,
\* queued, in one worker's hands, sent or collected, so each is consumed by
\* one worker and yields one result; when the collecting loop has ended the
\* handler holds exactly the results of the request's lines
C32_EachLineOnce ==
  (ing.pc = "collect" \/ ing.resultsClosed) =>
    \A x \in CompileLogs :
      /\ Requested(x) = Queued(x) + InHand(x) + Sent(x) + Collected(x)
      /\ (ing.resultsClosed /\ ing.resultsChan = <<>>) => Collected(x) = Requested(x)

\* a request of the largest size was collected in another order than its
\* lines were sent in: two workers overtook each other
C32_Witness ==
  /\ ing.pc = "done"
  /\ ing.resultsClosed
  /\ Len(ing.logstr) = MaxLines
  /\ Len(ing.logEntries) = MaxLines
  /\ ing.logEntries # [i \in DOMAIN ing.logstr |-> ParseLog(ing.logstr[i])]

(***************************************************************************)
(* Claims about paging with cursors.                                       *)
(***************************************************************************)
\* C33: every next_cursor a GET /logs request returns is strictly later than
\* the cursor the request used
C33_NextCursorLater ==
  (pg.n > 0 /\ pg.next # NoCursor) => pg.next > pg.sent

(***************************************************************************)
(* Claims about the order of the compiled filter predicates.               *)
(***************************************************************************)
\* C34: the same filter set always compiles to the same statement text and
\* the same parameter order: two calls of a compiler with the same filter
\* map, dates, paging and records return the same statement and parameters
C34_DeterministicKeyOrder ==
  compiled.fn # "none" =>
    \A other \in AllCompiles :
      ( /\ other.fn = compiled.fn
        /\ GenerateFiltersMap(other.q) = GenerateFiltersMap(compiled.q)
        /\ other.paginationFilter = compiled.paginationFilter
        /\ other.dateFilter = compiled.dateFilter
        /\ other.logs = compiled.logs )
      => other.query = compiled.query

(***************************************************************************)
(* Claims about a start that was answered 408.                             *)
(***************************************************************************)
\* C36: a start answered 408 is not rolled back (the step that answers it
\* leaves the tasks, the stored cancel and the contexts alone), and its task
\* keeps running until a later start or a stop cancels it: a step that ends
\* the activity of such a task is a step of a request handler, never the
\* restart of a task
C36_TimedOutTaskKeepsRunning ==
  [][\A r \in Reqs :
       /\ (req[r].pc = "wait" /\ req'[r].resp = TimeoutResponse)
            => (task' = task /\ cancelFunc' = cancelFunc /\ cancelled' = cancelled)
       /\ (req[r].resp = TimeoutResponse /\ TaskActive(r) /\ ~TaskActive(r)')
            => \A t \in Reqs : ~(task[t].pc = "tick" /\ task'[t].pc = "loop")]_vars

(***************************************************************************)
(* Claims about the analytic functions.                                    *)
(***************************************************************************)
WithKey(threats, key) == {i \in 1..Len(threats) : ThreatKey(threats[i]) = key}

MaxOf(S) == CHOOSE m \in S : \A x \in S : x <= m

\* C37: consolidation yields exactly one threat per distinct (ip, type) pair
\* of its input, whose request count is the number of input threats of the
\* pair, whose last_seen is the latest of theirs and whose confidence is
\* their maximum
C37_ConsolidatedPerPair ==
  ana.fn = "consolidateThreats" =>
    LET threats == ana.arg.threats
    IN /\ DOMAIN ana.out = {ThreatKey(threats[i]) : i \in 1..Len(threats)}
       /\ \A key \in DOMAIN ana.out :
            LET same == WithKey(threats, key)
            IN /\ ThreatKey(ana.out[key]) = key
               /\ ana.out[key].RequestCount = Cardinality(same)
               /\ ana.out[key].LastSeen = MaxOf({threats[i].LastSeen : i \in same})
               /\ ana.out[key].Confidence = MaxOf({threats[i].Confidence : i \in same})

\* the requests of ip within the 60 seconds that end at minute t
InWindow(logs, ip, t) == SumOver(logs[ip], {u \in Minutes : t - 1 <= u /\ u <= t})

\* C38: an IP that made more than 100 requests within some 60-second
\* window of the analysed logs is reported as a rate-limit violation of
\* severity high and confidence 0.9
C38_RateLimitReported ==
  ana.fn = "detectRateLimitViolations" =>
    \A ip \in IPs :
      (\E t \in Minutes : InWindow(ana.arg.logs, ip, t) > RateLimitThreshold)
        => \E threat \in ana.out :
             /\ threat.IPAddress = ip
             /\ threat.ThreatType = "Rate Limit Violation"
             /\ threat.Severity = "high"
             /\ threat.Confidence = 9

\* C39: two runs of the user clustering on the same logs with the same seed
\* assign the users to the same clusters
C39_ClusteringDeterministic ==
  ana.fn = "ClusterUsers" =>
    \A order \in RangeOrders(ClusterIPs) :
      ClusterUsers(ana.arg.logs, order, ana.arg.seed) = ana.out

(***************************************************************************)
(* Claims about the storage adapter's start-up.                            *)
(***************************************************************************)
\* C40: after a start-up whose statements all succeeded the index
\* idx_time_local exists, exactly once, whether or not it existed before,
\* however many times the process has started
C40_IndexEnsured ==
  (idx.pc = "up" /\ ~idx.failed) => idx.indexes = 1

====
